---- MODULE Spec2Model ----
(***************************************************************************)
(* DevOrb (jimseiwert/dev-env-extension): the 1Password client's pacing    *)
(* and circuit breaker, the secrets cache, the env-file reconciliation     *)
(* pass and the handling of deleted env files.                             *)
(*                                                                         *)
(* The extension runs on one JavaScript event loop.  An async function     *)
(* runs without interruption up to its next await of a timer or of I/O, so *)
(* every action below is the code between two such awaits.                 *)
(*                                                                         *)
(* Each component has its own specification (SpecRL, SpecCB, ...) over the *)
(* shared variables; the variables of the other components stay at their   *)
(* initial value.                                                          *)
(***************************************************************************)
EXTENDS Integers, Sequences, FiniteSets, TLC

\* ------------------------------------------------------------------ bounds
\* The clock stops at MaxTime ticks.
MaxTime == 9
\* Each caller issues at most MaxCalls calls of rateLimitedApiCall.
MaxCalls == 2

\* ------------------------------------------------------- program constants
\* Times are in abstract ticks.  The source's delays are scaled down; the
\* model keeps their order (interval < retry delay, interval < cool-down).
\* onePasswordService.ts: minApiInterval = 100 ms.
MinApiInterval == 2
\* onePasswordService.ts: setTimeout(resolve, 5000) before the single retry.
RetryDelay == 3
\* part_003: aggressiveMinInterval = 3000 ms.
AggressiveMinInterval == 2
\* part_003: rateLimitRetryAfter = 60 s.
RateLimitRetryAfter == 4

\* Physical fetches (loadSecretsInternal activations) per behaviour.
MaxLoads == 2
\* The remote vault changes at most MaxVer times.
MaxVer == 1
\* onePasswordService.ts: secretsCacheTTL = 30000 ms.
SecretsCacheTTL == 3
\* Vault items the model lets exist at once.
MaxItems == 2
\* Reconciliation passes (syncAllFiles) the model runs.
MaxPasses == 2
\* Latest modification time of a file or record that exists at the start.
MaxInitTime == 2
\* FileDecorator.getFileSyncStatus' tolerance (5000 ms), the only timestamp
\* tolerance in the program: |local - remote| < SyncTolerance.
SyncTolerance == 2
DebounceDelay == 2
NewFileDelay == 2
RecentTTL == 3
\* Commits the repository gains while the model runs.
MaxCommits == 1
MaxEvents == 3
MaxStarts == 2
\* Runs of syncEnvFile, and secret items the vault may hold.
MaxRuns == 2
MaxSecrets == 3

Callers == {"c1", "c2"}
\* Callers of getEnvironmentSecrets().
Readers == {"r1", "r2"}
LoadIds == 1..MaxLoads
\* How a remote operation settles: resolved, rejected with a message that
\* contains "rate limit", rejected with any other error.
Outcomes == {"ok", "ratelimit", "error"}
\* Date.now() at activation: far from 0, the initial lastApiCall.
Epoch == MinApiInterval + AggressiveMinInterval
None == -1

VARIABLES
  now,                      \* Date.now()
  lastApiCall,              \* OnePasswordService.lastApiCall
  circuitBreakerOpen,       \* OnePasswordService.circuitBreakerOpen (part_003)
  circuitBreakerOpenUntil,  \* OnePasswordService.circuitBreakerOpenUntil
  call,                     \* per caller: the rateLimitedApiCall it is in
  ncalls,                   \* per caller: calls issued so far
  maxDoneInv,               \* history: latest invocation time of a completed call
  client,                   \* OnePasswordService.client is set
  configVaultId,            \* OnePasswordService.config.vaultId ("" = none)
  vaultCache,               \* OnePasswordService.vaultCache
  secretsCache,             \* OnePasswordService.secretsCache
  isLoadingSecrets,         \* OnePasswordService.isLoadingSecrets
  pendingSecretsPromise,    \* OnePasswordService.pendingSecretsPromise (a load id)
  load,                     \* per load id: the loadSecretsInternal activation
  reader,                   \* per reader: its getEnvironmentSecrets() call
  remoteVer,                \* the vault's content, as a version number
  localFiles,               \* per path: the workspace file (content, mtime)
  vault,                    \* the env-file items of the vault, in list order
  pass,                     \* the EnvFileSyncService.syncAllFiles activation
  up,                       \* per uploader: its syncFileToRemote activation
  hist,                     \* history: passes run, interference, mutations
  verdict,                  \* history: per path, syncModifiedFiles' last decision
  git,                      \* the workspace's .git directory
  gitStates,                \* GitOperationDetector.gitStates entry of the workspace
  gitTimer,                 \* GitOperationDetector.gitOperationTimeouts has an entry
  ev,                       \* the handling of the latest file-deletion event
  deleteLog,                \* history: remote deletions carried out
  syncStatusCache,          \* FileDecorator.syncStatusCache
  deco,                     \* the FileDecorator.getFileSyncStatus activation
  isAutoSyncRunning,        \* AutoSyncService.isAutoSyncRunning
  autoPass,                 \* per requester: its autoCreateMissingEnvFiles activation
  fullSync,                 \* syncAllFiles activations in flight
  handlers,                 \* watcher handlers waiting at await isConfigured()
  autoSyncTimeouts,         \* AutoSyncService.autoSyncTimeouts (path -> timer id)
  timers,                   \* pending setTimeout()s of scheduleAutoSync
  perform,                  \* performAutoSync activations in flight
  createTimers,             \* pending setTimeout()s of onDidCreate
  recentlyProcessedFiles,   \* AutoSyncService.recentlyProcessedFiles
  markTimers,               \* pending setTimeout()s of markAsRecentlyProcessed
  autoHist,                 \* history: counters, syncs started, files written
  ens,                      \* a caller's ensureDevOrbVault activation
  envText,                  \* the lines of the .env file syncEnvFile reads
  secretItems,              \* the per-variable secret items of the vault
  ssync,                    \* the EnvironmentService.syncEnvFile activation
  secHist,                  \* history: runs of syncEnvFile and what they created
  autoCreateFiles,          \* the setting devOrb.env.autoCreateFiles
  tokenSetting,             \* the setting devOrb.env.onePassword.serviceAccountToken
  secretToken,              \* secret storage: devOrb.onePassword.serviceAccountToken
  tok,                      \* the run of handleConfigurationChange for the token
  own,                      \* history: this client's latest vault mutation
  jn,                       \* a pass deciding which local files to upload
  sc,                       \* a load of the secrets with its repository filter
  cf,                       \* the view provider comparing a variable with the vault
  claude,                   \* ClaudeSyncService: status.issyncing, githubSession, syncTimer
  claudeFiles,              \* settings.json in the .claude directory and in the gist
  syncRun                   \* the invocations of performSync / performPartialSync

rlVars == <<lastApiCall, circuitBreakerOpen, circuitBreakerOpenUntil, call,
            ncalls, maxDoneInv>>
cacheVars == <<client, configVaultId, vaultCache, secretsCache, isLoadingSecrets,
               pendingSecretsPromise, load, reader, remoteVer>>
syncVars == <<localFiles, vault, pass, up, hist, verdict>>
delVars == <<git, gitStates, gitTimer, ev, deleteLog>>
decoVars == <<syncStatusCache, deco>>
autoVars == <<isAutoSyncRunning, autoPass, fullSync, handlers, autoSyncTimeouts,
              timers, perform, createTimers, recentlyProcessedFiles, markTimers,
              autoHist>>
vaultVars == <<ens>>
secVars == <<envText, secretItems, ssync, secHist>>
cfgVars == <<autoCreateFiles>>
tokVars == <<tokenSetting, secretToken, tok>>
ownVars == <<own>>
newVars == <<jn, sc, cf, claude, claudeFiles, syncRun>>
lateVars == <<secVars, cfgVars, tokVars, ownVars, newVars>>
\* The variables of the components above this line.
oldVars == <<now, rlVars, cacheVars, syncVars, delVars, decoVars, autoVars, vaultVars, secVars, cfgVars, tokVars, ownVars>>
\* What the steps of each newer component leave unchanged.
restJoin == <<oldVars, sc, cf, claude, claudeFiles, syncRun>>
restScope == <<oldVars, jn, cf, claude, claudeFiles, syncRun>>
restCf == <<oldVars, jn, sc, claude, claudeFiles, syncRun>>
restClaude == <<oldVars, jn, sc, cf>>
extVars == <<decoVars, autoVars, vaultVars, lateVars>>
vars == <<now, rlVars, cacheVars, syncVars, delVars, extVars>>

Max(a, b) == IF a >= b THEN a ELSE b

\* ---------------------------------------------------------------- clock
Tick ==
  /\ now < MaxTime
  /\ now' = now + 1

\* =====================================================================
\* Rate-limited remote client
\* =====================================================================
\* A call record.  pc: where the async function is suspended.
\*   wake        when the pending setTimeout is due
\*   invoked     how many times apiCall() was invoked by this call
\*   inv1, invL  time of its first and of its latest invocation
\*   res         how the call ended
\*   paced       the call went through the pacing setTimeout
\*   enteredOpen the breaker was open and unexpired when the call started
\*   prevInv     maxDoneInv when the call started
\*   failAt      when the call saw a rate-limit error
IdleCall ==
  [pc |-> "idle", wake |-> None, invoked |-> 0, inv1 |-> None, invL |-> None,
   res |-> "none", paced |-> FALSE, enteredOpen |-> FALSE, prevInv |-> None,
   failAt |-> None, out1 |-> "none"]

RLInit ==
  /\ lastApiCall = 0
  /\ circuitBreakerOpen = FALSE
  /\ circuitBreakerOpenUntil = 0
  /\ call = [c \in Callers |-> IdleCall]
  /\ ncalls = [c \in Callers |-> 0]
  /\ maxDoneInv = None

\* waitTime of both versions: interval - timeSinceLastCall, when positive.
PacingWait_NoWait(t, last, interval) == 0
PacingWait(t, last, interval) ==
  IF t - last < interval THEN interval - (t - last) ELSE 0

\* error.message includes 'rate limit'
IsRateLimitError_Always(o) == TRUE
IsRateLimitError(o) == o = "ratelimit"

InFlight(c) == call[c].pc \in {"inflight", "inflight2"}

\* The record of a call that invokes apiCall() at time t.
Invoke(r, t) ==
  [r EXCEPT !.invoked = r.invoked + 1,
            !.inv1 = IF r.inv1 = None THEN t ELSE r.inv1,
            !.invL = t]

\* The call ends (returns or throws) with result res.
Finish(c, r, res) ==
  /\ call' = [call EXCEPT ![c] = [r EXCEPT !.pc = "done", !.res = res]]
  /\ maxDoneInv' = Max(maxDoneInv, r.invL)

CanStart(c) ==
  /\ call[c].pc \in {"idle", "done"}
  /\ ncalls[c] < MaxCalls

\* ---- src/src/services/environment/onePasswordService.ts (pacing + one retry)

\* Lines 29-38 up to the first await: no wait needed => apiCall() is invoked
\* in the same turn.
RL_Enter(c) ==
  /\ CanStart(c)
  /\ ncalls' = [ncalls EXCEPT ![c] = @ + 1]
  /\ LET w == PacingWait(now, lastApiCall, MinApiInterval)
         r == [IdleCall EXCEPT !.prevInv = maxDoneInv]
     IN IF w > 0
        THEN /\ call' = [call EXCEPT ![c] =
                           [r EXCEPT !.pc = "pacing", !.wake = now + w,
                                     !.paced = TRUE]]
             /\ UNCHANGED lastApiCall
        ELSE /\ call' = [call EXCEPT ![c] = [Invoke(r, now) EXCEPT !.pc = "inflight"]]
             /\ lastApiCall' = now
  /\ UNCHANGED <<now, circuitBreakerOpen, circuitBreakerOpenUntil, maxDoneInv>>

\* Line 35 resolves; lines 38-41.
RL_PacingElapsed(c) ==
  /\ call[c].pc = "pacing"
  /\ now >= call[c].wake
  /\ lastApiCall' = now
  /\ call' = [call EXCEPT ![c] = [Invoke(@, now) EXCEPT !.pc = "inflight"]]
  /\ UNCHANGED <<now, circuitBreakerOpen, circuitBreakerOpenUntil, ncalls, maxDoneInv>>

\* Line 41 settles; lines 42-56.
RL_ApiCallSettles(c, o) ==
  /\ call[c].pc = "inflight"
  /\ IF o = "ok"
     THEN Finish(c, [call[c] EXCEPT !.out1 = o], "ok")
     ELSE IF IsRateLimitError(o)
     THEN /\ call' = [call EXCEPT ![c] =
                        [@ EXCEPT !.pc = "retrywait", !.wake = now + RetryDelay,
                                  !.failAt = now, !.out1 = o]]
          /\ UNCHANGED maxDoneInv
     ELSE Finish(c, [call[c] EXCEPT !.out1 = o], o)
  /\ UNCHANGED <<now, lastApiCall, circuitBreakerOpen, circuitBreakerOpenUntil, ncalls>>

\* Line 48 resolves; lines 51-52.
RL_RetryElapsed(c) ==
  /\ call[c].pc = "retrywait"
  /\ now >= call[c].wake
  /\ lastApiCall' = now
  /\ call' = [call EXCEPT ![c] = [Invoke(@, now) EXCEPT !.pc = "inflight2"]]
  /\ UNCHANGED <<now, circuitBreakerOpen, circuitBreakerOpenUntil, ncalls, maxDoneInv>>

\* Line 52 settles: the retry's result or error is the call's.
RL_RetrySettles(c, o) ==
  /\ call[c].pc = "inflight2"
  /\ Finish(c, call[c], o)
  /\ UNCHANGED <<now, lastApiCall, circuitBreakerOpen, circuitBreakerOpenUntil, ncalls>>

\* ---- src/unnamed/part_003 (pacing + circuit breaker)

\* Line 50: the breaker refuses the call.
BreakerRefuses_Never(t) == FALSE
BreakerRefuses_Sticky(t) == circuitBreakerOpen
BreakerRefuses(t) == circuitBreakerOpen /\ t < circuitBreakerOpenUntil

\* Lines 46-74 up to the first await.
CB_Enter(c) ==
  /\ CanStart(c)
  /\ ncalls' = [ncalls EXCEPT ![c] = @ + 1]
  /\ LET open == circuitBreakerOpen /\ now < circuitBreakerOpenUntil
         r == [IdleCall EXCEPT !.prevInv = maxDoneInv, !.enteredOpen = open]
         w == PacingWait(now, lastApiCall, AggressiveMinInterval)
     IN IF BreakerRefuses(now)
        THEN /\ call' = [call EXCEPT ![c] = [r EXCEPT !.pc = "done", !.res = "refused"]]
             /\ UNCHANGED <<lastApiCall, circuitBreakerOpen>>
        ELSE /\ circuitBreakerOpen' = FALSE
             /\ IF w > 0
                THEN /\ call' = [call EXCEPT ![c] =
                                   [r EXCEPT !.pc = "pacing", !.wake = now + w,
                                             !.paced = TRUE]]
                     /\ UNCHANGED lastApiCall
                ELSE /\ call' = [call EXCEPT ![c] =
                                   [Invoke(r, now) EXCEPT !.pc = "inflight"]]
                     /\ lastApiCall' = now
  /\ UNCHANGED <<now, circuitBreakerOpenUntil, maxDoneInv>>

\* Line 71 resolves; lines 74-78.
CB_PacingElapsed(c) ==
  /\ call[c].pc = "pacing"
  /\ now >= call[c].wake
  /\ lastApiCall' = now
  /\ call' = [call EXCEPT ![c] = [Invoke(@, now) EXCEPT !.pc = "inflight"]]
  /\ UNCHANGED <<now, circuitBreakerOpen, circuitBreakerOpenUntil, ncalls, maxDoneInv>>

\* Line 78 settles; lines 79-106.
CB_ApiCallSettles(c, o) ==
  /\ call[c].pc = "inflight"
  /\ IF IsRateLimitError(o)
     THEN /\ circuitBreakerOpen' = TRUE
          /\ circuitBreakerOpenUntil' = now + RateLimitRetryAfter
          /\ lastApiCall' = now + RateLimitRetryAfter
          /\ Finish(c, [call[c] EXCEPT !.failAt = now, !.out1 = o], o)
     ELSE /\ Finish(c, [call[c] EXCEPT !.out1 = o], o)
          /\ UNCHANGED <<lastApiCall, circuitBreakerOpen, circuitBreakerOpenUntil>>
  /\ UNCHANGED <<now, ncalls>>

\* getRateLimitStatus().isRateLimited (lines 126-134).
GetRateLimitStatus == circuitBreakerOpen /\ now < circuitBreakerOpenUntil

\* =====================================================================
\* Secrets cache: getEnvironmentSecrets / loadSecretsInternal /
\* ensureDevOrbVault (src/src/services/environment/onePasswordService.ts)
\* =====================================================================
\* What getEnvironmentSecrets() resolves to: the empty array, or the items
\* the vault held (at version v) when items.list was served.
EmptyResult == <<>>
Items(v) == <<"items", v>>

\* A cache field holding null (lines 15, 17).
NoEntry == [null |-> TRUE]

\* A loadSecretsInternal activation.
\*   pc         "none" (not started), "vaultlist" / "itemslist" / "resolve"
\*              (awaiting that remote call), "listretry" (the 5 s wait of
\*              rateLimitedApiCall, line 48), "settled"
\*   listCalls  invocations of client.items.list (lines 41 and 52)
\*   wake       when the retry wait ends
\*   vaultOk    ensureDevOrbVault returned an id
\*   seen       the vault version items.list returned (a local of the
\*              activation: gone once it has settled)
\*   res        the value the promise resolved to
\*   inval      invalidateSecretsCache() ran while the load is in flight
NoLoad ==
  [pc |-> "none", listCalls |-> 0, vaultOk |-> FALSE, seen |-> None,
   wake |-> None, res |-> EmptyResult, inval |-> FALSE]

\* A getEnvironmentSecrets() call: pc "idle", "awaiting" (a load), "done".
\* stale: the load it is awaiting was in flight at an earlier invalidation.
IdleReader == [pc |-> "idle", load |-> None, res |-> EmptyResult, stale |-> FALSE]

\* The quiescent cache component (used by the other specifications).
CacheQuiet ==
  /\ client = TRUE
  /\ configVaultId = "v1"
  /\ vaultCache = NoEntry
  /\ secretsCache = NoEntry
  /\ isLoadingSecrets = FALSE
  /\ pendingSecretsPromise = None
  /\ load = [l \in LoadIds |-> NoLoad]
  /\ reader = [r \in Readers |-> IdleReader]
  /\ remoteVer = 0

\* After construction and initialize(): the client may be missing (no
\* token), the vault id may or may not be configured.
CacheInit ==
  /\ client \in BOOLEAN
  /\ configVaultId \in {"", "v1"}
  /\ vaultCache = NoEntry
  /\ secretsCache = NoEntry
  /\ isLoadingSecrets = FALSE
  /\ pendingSecretsPromise = None
  /\ load = [l \in LoadIds |-> NoLoad]
  /\ reader = [r \in Readers |-> IdleReader]
  /\ remoteVer = 0

\* Line 232: secretsCache && (Date.now() - timestamp) < secretsCacheTTL
SecretsCacheFresh_Never == FALSE
SecretsCacheFresh ==
  /\ secretsCache # NoEntry
  /\ now - secretsCache.timestamp < SecretsCacheTTL

\* Line 161: vaultCache && (Date.now() - timestamp) < secretsCacheTTL
VaultCacheFresh ==
  /\ vaultCache # NoEntry
  /\ now - vaultCache.timestamp < SecretsCacheTTL

\* Line 238: isLoadingSecrets && pendingSecretsPromise
LoadPending_Never == FALSE
LoadPending == isLoadingSecrets /\ pendingSecretsPromise # None

LoadInFlight(l) == load[l].pc \in {"vaultlist", "itemslist", "listretry", "resolve"}
FreeLoadIds == {l \in LoadIds : load[l].pc = "none"}

\* The promise of load l resolves to res: the awaiting readers continue in
\* the same turn (microtasks), the owner's finally block (lines 250-253)
\* among them.
Settle(l, ld, res) ==
  /\ load' = [load EXCEPT ![l] = [ld EXCEPT !.pc = "settled", !.res = res,
                                             !.seen = None, !.inval = FALSE]]
  /\ reader' = [r \in Readers |->
                  IF reader[r].pc = "awaiting" /\ reader[r].load = l
                  THEN [reader[r] EXCEPT !.pc = "done", !.res = res,
                                         !.stale = FALSE]
                  ELSE reader[r]]
  /\ isLoadingSecrets' = FALSE
  /\ pendingSecretsPromise' = None

\* Lines 226-254 and, for a caller that starts the fetch, loadSecretsInternal
\* and ensureDevOrbVault up to their first remote call (lines 256-273,
\* 155-176).
GetEnvironmentSecrets(r) ==
  /\ reader[r].pc \in {"idle", "done"}
  /\ IF ~client
     THEN /\ reader' = [reader EXCEPT ![r] = [IdleReader EXCEPT !.pc = "done"]]
          /\ UNCHANGED <<vaultCache, isLoadingSecrets, pendingSecretsPromise, load>>
     ELSE IF SecretsCacheFresh
     THEN /\ reader' = [reader EXCEPT ![r] = [IdleReader EXCEPT
                                                !.pc = "done",
                                                !.res = secretsCache.data]]
          /\ UNCHANGED <<vaultCache, isLoadingSecrets, pendingSecretsPromise, load>>
     ELSE IF LoadPending
     THEN /\ reader' = [reader EXCEPT ![r] =
                          [IdleReader EXCEPT
                             !.pc = "awaiting", !.load = pendingSecretsPromise,
                             !.stale = load[pendingSecretsPromise].inval]]
          /\ UNCHANGED <<vaultCache, isLoadingSecrets, pendingSecretsPromise, load>>
     ELSE /\ FreeLoadIds # {}
          /\ LET l == CHOOSE x \in FreeLoadIds : \A y \in FreeLoadIds : x <= y
             IN /\ isLoadingSecrets' = TRUE
                /\ pendingSecretsPromise' = l
                /\ reader' = [reader EXCEPT ![r] =
                                [IdleReader EXCEPT !.pc = "awaiting", !.load = l]]
                /\ IF VaultCacheFresh
                   THEN /\ load' = [load EXCEPT ![l] =
                                      [NoLoad EXCEPT !.pc = "itemslist",
                                                     !.listCalls = 1, !.vaultOk = TRUE]]
                        /\ UNCHANGED vaultCache
                   ELSE IF configVaultId # ""
                   THEN /\ load' = [load EXCEPT ![l] =
                                      [NoLoad EXCEPT !.pc = "itemslist",
                                                     !.listCalls = 1, !.vaultOk = TRUE]]
                        /\ vaultCache' = [vaultId |-> configVaultId, timestamp |-> now]
                   ELSE /\ load' = [load EXCEPT ![l] = [NoLoad EXCEPT !.pc = "vaultlist"]]
                        /\ UNCHANGED vaultCache
  /\ UNCHANGED <<now, client, configVaultId, secretsCache, remoteVer>>

\* vaults.list settles (lines 176-189), then items.list is requested (line
\* 270).  o: "found" (a vault titled DevOrb), "notfound", "fail" (the call
\* threw).  A throw of ensureDevOrbVault lands in the catch of lines 379-384.
VaultOutcomes == {"found", "notfound", "fail"}
VaultListSettles(l, o) ==
  /\ load[l].pc = "vaultlist"
  /\ IF o = "found"
     THEN /\ configVaultId' = "v1"
          /\ vaultCache' = [vaultId |-> "v1", timestamp |-> now]
          /\ load' = [load EXCEPT ![l] = [@ EXCEPT !.pc = "itemslist",
                                                   !.listCalls = @ + 1,
                                                   !.vaultOk = TRUE]]
          /\ UNCHANGED <<secretsCache, isLoadingSecrets, pendingSecretsPromise, reader>>
     ELSE /\ secretsCache' = [data |-> EmptyResult, timestamp |-> now]
          /\ Settle(l, load[l], EmptyResult)
          /\ UNCHANGED <<configVaultId, vaultCache>>
  /\ UNCHANGED <<now, client, remoteVer>>

\* items.list settles (lines 270-313 around lines 40-56).  o: "items"
\* (devorb items found), "empty" (none), "ratelimit" (it threw a rate-limit
\* error: the first invocation is retried once, the second one's error
\* propagates), "fail" (it threw another error).
ListOutcomes == {"items", "empty", "ratelimit", "fail"}
ItemsListSettles(l, o) ==
  /\ load[l].pc = "itemslist"
  /\ IF o = "items"
     THEN /\ load' = [load EXCEPT ![l] = [@ EXCEPT !.pc = "resolve",
                                                   !.seen = remoteVer]]
          /\ UNCHANGED <<secretsCache, isLoadingSecrets, pendingSecretsPromise, reader>>
     ELSE IF o = "ratelimit" /\ load[l].listCalls = 1
     THEN /\ load' = [load EXCEPT ![l] = [@ EXCEPT !.pc = "listretry",
                                                   !.wake = now + RetryDelay]]
          /\ UNCHANGED <<secretsCache, isLoadingSecrets, pendingSecretsPromise, reader>>
     ELSE /\ secretsCache' = [data |-> EmptyResult, timestamp |-> now]
          /\ Settle(l, load[l], EmptyResult)
  /\ UNCHANGED <<now, client, configVaultId, vaultCache, remoteVer>>

\* The retry wait ends and items.list is invoked again (lines 48-52).
ListRetryElapsed(l) ==
  /\ load[l].pc = "listretry"
  /\ now >= load[l].wake
  /\ load' = [load EXCEPT ![l] = [@ EXCEPT !.pc = "itemslist",
                                           !.listCalls = @ + 1]]
  /\ UNCHANGED <<now, client, configVaultId, vaultCache, secretsCache,
                 isLoadingSecrets, pendingSecretsPromise, reader, remoteVer>>

\* secrets.resolveAll settles (lines 318-384).
ResolveAllSettles(l, ok) ==
  /\ load[l].pc = "resolve"
  /\ LET res == IF ok THEN Items(load[l].seen) ELSE EmptyResult
     IN /\ secretsCache' = [data |-> res, timestamp |-> now]
        /\ Settle(l, load[l], res)
  /\ UNCHANGED <<now, client, configVaultId, vaultCache, remoteVer>>

\* Lines 408-411.
InvalidateSecretsCache ==
  /\ \/ secretsCache # NoEntry
     \/ \E l \in LoadIds : LoadInFlight(l) /\ ~load[l].inval
  /\ secretsCache' = NoEntry
  /\ load' = [l \in LoadIds |->
               IF LoadInFlight(l) THEN [load[l] EXCEPT !.inval = TRUE] ELSE load[l]]
  /\ UNCHANGED <<now, client, configVaultId, vaultCache, isLoadingSecrets,
                 pendingSecretsPromise, reader, remoteVer>>

\* The vault's content changes (this client's own mutation is followed by
\* InvalidateSecretsCache; another machine's is not).
RemoteChange ==
  /\ remoteVer < MaxVer
  /\ remoteVer' = remoteVer + 1
  /\ UNCHANGED <<now, client, configVaultId, vaultCache, secretsCache,
                 isLoadingSecrets, pendingSecretsPromise, load, reader>>

\* =====================================================================
\* File reconciliation: EnvFileSyncService
\* (src/src/services/environment/envFileSyncService.ts) over the env-file
\* items of OnePasswordService (onePasswordService.ts, lines 680-888)
\* =====================================================================
\* Workspace-relative paths of .env files, and their possible contents.
Paths == {".env"}
Contents == {"", "a", "b"}
\* syncAllFiles, and syncSingleEnvFile called by a command or the auto sync.
Uploaders == {"pass", "single"}
\* The buttons of showConflictDialog, and closing it.
Choices == {"local", "remote", "diff", "dismiss"}

\* crypto.createHash('sha256').update(content).digest('hex')
Hash(c) == <<"sha256", c>>

NoFile == [exists |-> FALSE]
File(c, t) == [exists |-> TRUE, content |-> c, mtime |-> t]

\* The fields createEnvFile stores (lines 688-725).
Doc(i, p, c, t) ==
  [id |-> i, path |-> p, content |-> c, hash |-> Hash(c), lastModified |-> t]

HasPath(seq, p) == \E i \in 1..Len(seq) : seq[i].path = p
FirstFor(seq, p) ==
  seq[CHOOSE i \in 1..Len(seq) :
        seq[i].path = p /\ \A j \in 1..(i - 1) : seq[j].path # p]
LastFor(seq, p) ==
  seq[CHOOSE i \in 1..Len(seq) :
        seq[i].path = p /\ \A j \in (i + 1)..Len(seq) : seq[j].path # p]
FreshId(seq) ==
  IF seq = <<>> THEN 1
  ELSE 1 + CHOOSE m \in {seq[i].id : i \in 1..Len(seq)} :
             \A j \in 1..Len(seq) : seq[j].id <= m

\* getEnvFilesForRepo (lines 817-870): an item is reported only
\* `if (content && filePath)`; on an error the result is [].
Reported(d) == d.content # "" /\ d.path # ""
GetEnvFilesForRepo(ok) == IF ok THEN SelectSeq(vault, Reported) ELSE <<>>

\* findEnvFileByPath (lines 782-815): the first item whose File Path field
\* matches; null when there is none and when anything throws.
FindEnvFileByPath(p, ok) ==
  IF ok /\ HasPath(vault, p) THEN FirstFor(vault, p).id ELSE None

\* updateEnvFile (lines 740-780): File Content, Last Modified and Hash of
\* the item are replaced.
UpdateEnvFile(i, c, t) ==
  [k \in 1..Len(vault) |->
     IF vault[k].id = i THEN Doc(i, vault[k].path, c, t) ELSE vault[k]]

\* syncModifiedFiles' comparison of the two Dates (lines 225-239).
Classify_LocalWinsTies(lt, rt) == IF lt >= rt THEN "upload" ELSE "download"
Classify(lt, rt) ==
  IF lt > rt THEN "upload" ELSE IF rt > lt THEN "download" ELSE "conflict"

\* new Map(remoteFiles.map(f => [f.metadata.filePath, f])) (line 213): a
\* later entry replaces an earlier one with the same path.
RemoteFileMapHas(p) == HasPath(pass.remoteSnap, p)
RemoteFileMapGet(p) == LastFor(pass.remoteSnap, p)

\* Paths syncModifiedFiles acts on (line 218).
ModifiedPaths ==
  {p \in Paths : /\ pass.localSnap[p].exists
                 /\ RemoteFileMapHas(p)
                 /\ Hash(pass.localSnap[p].content) # RemoteFileMapGet(p).hash}

IdlePass ==
  [pc |-> "idle", localSnap |-> [p \in Paths |-> NoFile], remoteSnap |-> <<>>,
   todo |-> {}, cur |-> None, after |-> "idle", chosen |-> FALSE,
   readFailed |-> FALSE]
IdleUp == [pc |-> "idle", path |-> None, content |-> "", mtime |-> None,
           found |-> None]
NoVerdict == [kind |-> "none", ltime |-> None, rtime |-> None,
              choice |-> "none", wrote |-> "none"]

SyncQuiet ==
  /\ localFiles = [p \in Paths |-> NoFile]
  /\ vault = <<>>
  /\ pass = IdlePass
  /\ up = [u \in Uploaders |-> IdleUp]
  /\ hist = [passNo |-> 0, quiet |-> FALSE, clean |-> TRUE, mut2 |-> FALSE]
  /\ verdict = [p \in Paths |-> NoVerdict]

\* Any workspace and any vault this extension wrote: each path absent or
\* present on either side, with any content and modification time.
InitTimes == 1..MaxInitTime
SyncInit ==
  /\ localFiles \in [Paths -> {NoFile} \cup
                       {File(c, t) : c \in Contents, t \in InitTimes}]
  /\ vault \in {<<>>} \cup
               {<<Doc(1, p, c, t)>> : p \in Paths, c \in Contents, t \in InitTimes}
  /\ pass = IdlePass
  /\ up = [u \in Uploaders |-> IdleUp]
  /\ hist = [passNo |-> 0, quiet |-> FALSE, clean |-> TRUE, mut2 |-> FALSE]
  /\ verdict = [p \in Paths |-> NoVerdict]

\* createFileFromRemote (lines 101-134): writeFileSync of the remote content,
\* utimesSync to the remote Last Modified.  It awaits nothing.
CreateFileFromRemote(files, r) ==
  [files EXCEPT ![r.path] = File(r.content, r.lastModified)]

\* syncFileToRemote up to its first await (lines 52-81): the file is read
\* again; a file that is gone makes readFileSync throw, which the pass does
\* not catch.
BeginUpload(p, nextPc, byUser) ==
  IF localFiles[p].exists
  THEN /\ up' = [up EXCEPT !["pass"] =
                   [pc |-> "find", path |-> p, content |-> localFiles[p].content,
                    mtime |-> localFiles[p].mtime, found |-> None]]
       /\ pass' = [pass EXCEPT !.pc = "uploading", !.todo = @ \ {p}, !.cur = p,
                               !.after = nextPc, !.chosen = byUser]
       /\ UNCHANGED hist
  ELSE /\ pass' = IdlePass
       /\ hist' = [hist EXCEPT !.clean = FALSE]
       /\ UNCHANGED up

\* syncAllFiles, lines 15-30: scanLocalEnvFiles.
PassScanLocal ==
  /\ pass.pc = "idle"
  /\ hist.passNo < MaxPasses
  /\ pass' = [IdlePass EXCEPT !.pc = "remote", !.localSnap = localFiles]
  /\ hist' = IF hist.passNo = 0
             THEN [hist EXCEPT !.passNo = 1, !.quiet = TRUE, !.clean = TRUE,
                               !.mut2 = FALSE]
             ELSE [hist EXCEPT !.passNo = @ + 1]
  /\ UNCHANGED <<now, localFiles, vault, up, verdict>>

\* Lines 34-38: getRemoteEnvFiles settles and createMissingLocalFiles (lines
\* 174-186) writes every reported remote file whose path was not scanned.
PassRemoteLoaded(ok) ==
  /\ pass.pc = "remote"
  /\ LET snap == GetEnvFilesForRepo(ok)
         missing == {p \in Paths : ~pass.localSnap[p].exists /\ HasPath(snap, p)}
     IN /\ localFiles' = [p \in Paths |->
                            IF p \in missing
                            THEN File(LastFor(snap, p).content,
                                      LastFor(snap, p).lastModified)
                            ELSE localFiles[p]]
        /\ pass' = [pass EXCEPT
                      !.pc = "upload", !.remoteSnap = snap, !.readFailed = ~ok,
                      !.todo = {p \in Paths : pass.localSnap[p].exists
                                              /\ ~HasPath(snap, p)}]
        /\ hist' = [hist EXCEPT
                      !.clean = @ /\ ok,
                      !.mut2 = @ \/ (hist.passNo >= 2 /\ missing # {})]
  /\ UNCHANGED <<now, vault, up, verdict>>

\* uploadMissingRemoteFiles (lines 188-206), one iteration.
PassUploadMissing(p) ==
  /\ pass.pc = "upload"
  /\ p \in pass.todo
  /\ BeginUpload(p, "upload", FALSE)
  /\ UNCHANGED <<now, localFiles, vault, verdict>>

\* Lines 41-44 and 213: the upload loop is over, syncModifiedFiles starts.
PassUploadsDone ==
  /\ pass.pc = "upload"
  /\ pass.todo = {}
  /\ pass' = [pass EXCEPT !.pc = "modified", !.todo = ModifiedPaths]
  /\ UNCHANGED <<now, localFiles, vault, up, hist, verdict>>

\* syncModifiedFiles (lines 215-240), one iteration.
PassSyncModified(p) ==
  /\ pass.pc = "modified"
  /\ p \in pass.todo
  /\ LET l == pass.localSnap[p]
         r == RemoteFileMapGet(p)
         k == Classify(l.mtime, r.lastModified)
         v == [kind |-> k, ltime |-> l.mtime, rtime |-> r.lastModified,
               choice |-> "none", wrote |-> "none"]
     IN IF k = "upload"
        THEN /\ BeginUpload(p, "modified", FALSE)
             /\ verdict' = [verdict EXCEPT ![p] = v]
             /\ UNCHANGED localFiles
        ELSE IF k = "download"
        THEN /\ localFiles' = CreateFileFromRemote(localFiles, r)
             /\ verdict' = [verdict EXCEPT ![p] = [v EXCEPT !.wrote = "toLocal"]]
             /\ pass' = [pass EXCEPT !.todo = @ \ {p}, !.cur = p]
             /\ hist' = [hist EXCEPT !.mut2 = @ \/ hist.passNo >= 2]
             /\ UNCHANGED up
        ELSE /\ verdict' = [verdict EXCEPT ![p] = v]
             /\ pass' = [pass EXCEPT !.pc = "prompt", !.todo = @ \ {p}, !.cur = p]
             /\ UNCHANGED <<localFiles, up, hist>>
  /\ UNCHANGED <<now, vault>>

\* showConflictDialog (lines 244-264): the user picks a button or closes
\* the message.
PassConflictAnswered(ch) ==
  /\ pass.pc = "prompt"
  /\ LET p == pass.cur
     IN IF ch = "local"
        THEN /\ BeginUpload(p, "modified", TRUE)
             /\ verdict' = [verdict EXCEPT ![p].choice = ch]
             /\ UNCHANGED localFiles
        ELSE IF ch = "remote"
        THEN /\ localFiles' = CreateFileFromRemote(localFiles, RemoteFileMapGet(p))
             /\ verdict' = [verdict EXCEPT ![p].choice = ch, ![p].wrote = "toLocal"]
             /\ pass' = [pass EXCEPT !.pc = "modified"]
             /\ UNCHANGED <<up, hist>>
        ELSE /\ verdict' = [verdict EXCEPT ![p].choice = ch]
             /\ pass' = [pass EXCEPT !.pc = "modified"]
             /\ UNCHANGED <<localFiles, up, hist>>
  /\ UNCHANGED <<now, vault>>

\* Line 46: syncAllFiles returns.
PassDone ==
  /\ pass.pc = "modified"
  /\ pass.todo = {}
  /\ pass' = IdlePass
  /\ UNCHANGED <<now, localFiles, vault, up, hist, verdict>>

\* syncSingleEnvFile (envService.ts, lines 32-35) for path p.
SingleSync(p) ==
  /\ up["single"].pc = "idle"
  /\ localFiles[p].exists
  /\ up' = [up EXCEPT !["single"] =
              [pc |-> "find", path |-> p, content |-> localFiles[p].content,
               mtime |-> localFiles[p].mtime, found |-> None]]
  /\ UNCHANGED <<now, localFiles, vault, pass, hist, verdict>>

\* syncFileToRemote, line 81: findEnvFileByPath settles.
FindSettles(u, ok) ==
  /\ up[u].pc = "find"
  /\ up' = [up EXCEPT ![u].pc = "write",
                      ![u].found = FindEnvFileByPath(up[u].path, ok)]
  /\ hist' = IF u = "pass" THEN [hist EXCEPT !.clean = @ /\ ok] ELSE hist
  /\ UNCHANGED <<now, localFiles, vault, pass, verdict>>

\* syncFileToRemote, lines 83-95: updateEnvFile or createEnvFile settles; a
\* throw propagates out of syncFileToRemote and, in a pass, out of
\* syncAllFiles.
WriteSettles(u, ok) ==
  /\ up[u].pc = "write"
  /\ LET w == up[u]
         creating == w.found = None
         success == ok /\ (creating \/ \E k \in 1..Len(vault) : vault[k].id = w.found)
     IN /\ (ok /\ creating) => Len(vault) < MaxItems
        /\ vault' = IF ~success THEN vault
                    ELSE IF creating
                    THEN Append(vault, Doc(FreshId(vault), w.path, w.content, w.mtime))
                    ELSE UpdateEnvFile(w.found, w.content, w.mtime)
        /\ up' = [up EXCEPT ![u] = IdleUp]
        /\ IF u = "pass"
           THEN /\ pass' = IF success
                           THEN [pass EXCEPT !.pc = pass.after, !.chosen = FALSE]
                           ELSE IdlePass
                /\ hist' = [hist EXCEPT
                              !.clean = @ /\ success,
                              !.mut2 = @ \/ (success /\ hist.passNo >= 2
                                             /\ ~pass.chosen)]
                /\ verdict' = IF success /\ pass.after = "modified"
                              THEN [verdict EXCEPT ![w.path].wrote = "toRemote"]
                              ELSE verdict
           ELSE /\ hist' = [hist EXCEPT !.quiet = @ /\ ~success]
                /\ UNCHANGED <<pass, verdict>>
  /\ UNCHANGED <<now, localFiles>>

\* A workspace file is removed (by the user or by a git operation).
LocalDelete(p) ==
  /\ localFiles[p].exists
  /\ localFiles' = [localFiles EXCEPT ![p] = NoFile]
  /\ hist' = [hist EXCEPT !.quiet = FALSE]
  /\ UNCHANGED <<now, vault, pass, up, verdict>>

\* =====================================================================
\* File deletion: GitOperationDetector
\* (src/src/services/gitOperationDetector.ts) and the deletion handlers of
\* the two AutoSyncService versions (src/unnamed/part_004)
\* =====================================================================
Branches == {"main", "feat"}
\* The buttons of handleUserFileDeletion's dialog, and closing it.
Answers == {"yes", "no", "dismiss"}

\* getCurrentGitState (lines 39-72).
GetCurrentGitState ==
  [currentBranch |-> git.branch, lastCommitHash |-> git.commit,
   isInGitOperation |-> FALSE, lastOp |-> "none"]

\* isCurrentlyInGitOperation (lines 125-146): MERGE_HEAD, CHERRY_PICK_HEAD,
\* REVERT_HEAD, REBASE_HEAD, rebase-merge, rebase-apply or BISECT_LOG exists.
IsCurrentlyInGitOperation_Blind == FALSE
IsCurrentlyInGitOperation == git.marker

\* detectGitOperation (lines 74-123).  markGitOperation flags the stored
\* state object and gitStates.set then replaces that object by the fresh
\* one, whose flag is false (lines 106-107, 114-115).
DetectGitOperation ==
  IF ~git.dir THEN "user"
  ELSE IF IsCurrentlyInGitOperation THEN "git"
  ELSE IF gitStates # NoEntry /\ gitStates.isInGitOperation THEN "git"
  ELSE IF gitStates = NoEntry THEN "user"
  ELSE IF gitStates.currentBranch # git.branch THEN "git"
  ELSE IF gitStates.lastCommitHash # git.commit THEN "git"
  ELSE "user"

\* detectGitOperation reaches lines 94-122 and stores the current state.
DetectStores ==
  /\ git.dir
  /\ ~IsCurrentlyInGitOperation
  /\ ~(gitStates # NoEntry /\ gitStates.isInGitOperation)

\* The stored state differs from the repository's: a branch or head change
\* the detector has not yet seen.
GitChanged ==
  /\ git.dir
  /\ gitStates # NoEntry
  /\ \/ gitStates.currentBranch # git.branch
     \/ gitStates.lastCommitHash # git.commit

NoEvent ==
  [pc |-> "idle", path |-> None, via |-> "none", class |-> "none",
   marker |-> FALSE, changed |-> FALSE, found |-> None, prompted |-> FALSE,
   answer |-> "none", resync |-> FALSE, window |-> FALSE, noPrev |-> FALSE]

DelQuiet ==
  /\ git = [dir |-> FALSE, marker |-> FALSE, branch |-> "main", commit |-> 0]
  /\ gitStates = NoEntry
  /\ gitTimer = FALSE
  /\ ev = NoEvent
  /\ deleteLog = {}

\* After activation: the constructor's initializeGitStates (lines 26-37) has
\* stored the state of a workspace that has a .git directory.
DelInit ==
  /\ git \in [dir : BOOLEAN, marker : {FALSE}, branch : {"main"}, commit : {0}]
  /\ gitStates = IF git.dir THEN GetCurrentGitState ELSE NoEntry
  /\ gitTimer = FALSE
  /\ ev = NoEvent
  /\ deleteLog = {}

\* The repository changes under the extension: git init, a checkout of the
\* other branch, a new head commit, a merge / rebase / cherry-pick that
\* starts (its marker file appears) or ends.
GitKinds == {"init", "checkout", "commit", "begin", "end"}
GitActivity(k) ==
  /\ k = "init" => ~git.dir
  /\ k # "init" => git.dir
  /\ k = "commit" => git.commit < MaxCommits
  /\ k = "begin" => ~git.marker
  /\ k = "end" => git.marker
  /\ git' = CASE k = "init" -> [git EXCEPT !.dir = TRUE]
              [] k = "checkout" ->
                   [git EXCEPT !.branch = CHOOSE b \in Branches : b # git.branch]
              [] k = "commit" -> [git EXCEPT !.commit = @ + 1]
              [] k = "begin" -> [git EXCEPT !.marker = TRUE]
              [] k = "end" -> [git EXCEPT !.marker = FALSE]
  /\ UNCHANGED <<now, syncVars, gitStates, gitTimer, ev, deleteLog>>

\* checkForGitChanges (lines 199-237), every GIT_STATE_CHECK_INTERVAL.
CheckForGitChanges ==
  /\ git.dir
  /\ \/ gitStates = NoEntry
     \/ GitChanged
  /\ gitStates' = GetCurrentGitState
  /\ gitTimer' = (gitTimer \/ gitStates # NoEntry)
  /\ UNCHANGED <<now, syncVars, git, ev, deleteLog>>

\* The timeout set by markGitOperation (lines 162-169) fires.
GitOperationTimeout ==
  /\ gitTimer
  /\ gitTimer' = FALSE
  /\ gitStates' = IF gitStates = NoEntry THEN NoEntry
                  ELSE [gitStates EXCEPT !.isInGitOperation = FALSE,
                                         !.lastOp = "none"]
  /\ UNCHANGED <<now, syncVars, git, ev, deleteLog>>

\* A workspace .env file is deleted; the file watcher will report it.
FileDeleted(p) ==
  /\ ev.pc \in {"idle", "done"}
  /\ localFiles[p].exists
  /\ localFiles' = [localFiles EXCEPT ![p] = NoFile]
  /\ ev' = [NoEvent EXCEPT !.pc = "pending", !.path = p]
  /\ UNCHANGED <<now, vault, pass, up, hist, verdict, git, gitStates, gitTimer,
                 deleteLog>>

\* watcher.onDidDelete of the current AutoSyncService (part_004, lines
\* 314-364) up to the first remote call: the classification, then either
\* nothing ('git') or handleUserFileDeletion up to getRemoteEnvFiles.
OnDidDelete ==
  /\ ev.pc = "pending"
  /\ LET class == DetectGitOperation
         stored == IF DetectStores THEN GetCurrentGitState ELSE gitStates
         gitOp == IF stored = NoEntry THEN "none" ELSE stored.lastOp
     IN /\ gitStates' = stored
        /\ gitTimer' = (gitTimer \/ (DetectStores /\ GitChanged))
        /\ ev' = [ev EXCEPT
                    !.pc = IF class = "git" THEN "done" ELSE "lookup",
                    !.via = "watcher", !.class = class,
                    !.marker = git.dir /\ git.marker,
                    !.changed = GitChanged,
                    !.window = gitTimer,
                    !.noPrev = (git.dir /\ gitStates = NoEntry),
                    !.resync = (class = "git" /\ gitOp = "checkout")]
  /\ UNCHANGED <<now, syncVars, git, deleteLog>>

\* handleFileDeletion of the earlier AutoSyncService (part_004, lines 32-65)
\* up to getRemoteEnvFiles: no classification.
HandleFileDeletion ==
  /\ ev.pc = "pending"
  /\ ev' = [ev EXCEPT !.pc = "lookup", !.via = "legacy"]
  /\ UNCHANGED <<now, syncVars, git, gitStates, gitTimer, deleteLog>>

\* getRemoteEnvFiles settles: remoteFiles.find by path (lines 397-400 and
\* 46-49); the current handler opens the dialog, the earlier one goes on to
\* delete.
LookupSettles(ok) ==
  /\ ev.pc = "lookup"
  /\ LET files == GetEnvFilesForRepo(ok)
         hit == HasPath(files, ev.path)
     IN ev' = [ev EXCEPT
                 !.pc = IF ~hit THEN "done"
                        ELSE IF ev.via = "watcher" THEN "prompt" ELSE "deleting",
                 !.found = IF hit THEN FirstFor(files, ev.path).id ELSE None,
                 !.prompted = hit /\ ev.via = "watcher"]
  /\ UNCHANGED <<now, syncVars, git, gitStates, gitTimer, deleteLog>>

\* The user answers 'Delete ... from 1Password as well?' (lines 402-421).
PromptAnswered(a) ==
  /\ ev.pc = "prompt"
  /\ ev' = [ev EXCEPT !.pc = IF a = "yes" THEN "deleting" ELSE "done",
                      !.answer = a]
  /\ UNCHANGED <<now, syncVars, git, gitStates, gitTimer, deleteLog>>

\* The remote delete settles (lines 410 and 52; deleteEnvFile,
\* onePasswordService.ts lines 872-888); an error is caught and reported.
DeleteSettles(ok) ==
  /\ ev.pc = "deleting"
  /\ vault' = IF ok THEN SelectSeq(vault, LAMBDA d : d.id # ev.found) ELSE vault
  /\ deleteLog' = IF ok /\ \E k \in 1..Len(vault) : vault[k].id = ev.found
                  THEN deleteLog \cup {[via |-> ev.via,
                                        routed |-> ev.class # "none",
                                        confirmed |-> ev.answer = "yes"]}
                  ELSE deleteLog
  /\ ev' = [ev EXCEPT !.pc = "done"]
  /\ UNCHANGED <<now, localFiles, pass, up, hist, verdict, git, gitStates, gitTimer>>

\* =====================================================================
\* File decorations: FileDecorator
\*   src/src/envService.ts (the decorator part, lines 322-450)
\* =====================================================================
Statuses == {"local_only", "synced", "local_newer", "remote_newer"}
NoStatus == "none"

\* The comparison of the two modification times (lines 385-392).
Abs(x) == IF x < 0 THEN 0 - x ELSE x
StatusFromTimes(lt, rt) ==
  IF Abs(lt - rt) < SyncTolerance THEN "synced"
  ELSE IF lt > rt THEN "local_newer" ELSE "remote_newer"

\* ltime and rtime: the two modification times the activation has read.
IdleDeco == [pc |-> "idle", path |-> None, ltime |-> None, rtime |-> None,
             res |-> NoStatus]

DecoQuiet ==
  /\ syncStatusCache = [p \in Paths |-> NoStatus]
  /\ deco = IdleDeco

\* this.syncStatusCache.set(cacheKey, status); return status.
StoreStatus(p, st) ==
  /\ syncStatusCache' = [syncStatusCache EXCEPT ![p] = st]
  /\ deco' = [deco EXCEPT !.pc = "done", !.res = st]

\* getFileSyncStatus up to its first await (lines 344-353): a stored status
\* is returned as it is.
GetFileSyncStatus(p) ==
  /\ deco.pc \in {"idle", "done"}
  /\ IF syncStatusCache[p] # NoStatus
     THEN /\ deco' = [IdleDeco EXCEPT !.pc = "done", !.path = p,
                                      !.res = syncStatusCache[p]]
          /\ UNCHANGED syncStatusCache
     ELSE /\ deco' = [IdleDeco EXCEPT !.pc = "isConfigured", !.path = p]
          /\ UNCHANGED syncStatusCache
  /\ UNCHANGED <<now, localFiles, vault>>

\* await this.envService.isConfigured() (lines 353-357).
DecoConfiguredSettles(configured) ==
  /\ deco.pc = "isConfigured"
  /\ IF configured
     THEN /\ deco' = [deco EXCEPT !.pc = "remote"]
          /\ UNCHANGED syncStatusCache
     ELSE StoreStatus(deco.path, "local_only")
  /\ UNCHANGED <<now, localFiles, vault>>

\* await this.envService.getRemoteEnvFiles() and the find (lines 360-377):
\* the first reported record with the file's path, local_only without one.
DecoRemoteSettles(ok) ==
  /\ deco.pc = "remote"
  /\ LET remoteFiles == GetEnvFilesForRepo(ok)
     IN IF HasPath(remoteFiles, deco.path)
        THEN /\ deco' = [deco EXCEPT
                           !.pc = "stat",
                           !.rtime = FirstFor(remoteFiles, deco.path).lastModified]
             /\ UNCHANGED syncStatusCache
        ELSE StoreStatus(deco.path, "local_only")
  /\ UNCHANGED <<now, localFiles, vault>>

\* await vscode.workspace.fs.stat(uri) and the comparison (lines 380-400).
DecoStatSettles ==
  /\ deco.pc = "stat"
  /\ IF localFiles[deco.path].exists
     THEN LET lt == localFiles[deco.path].mtime
              st == StatusFromTimes(lt, deco.rtime)
          IN /\ syncStatusCache' = [syncStatusCache EXCEPT ![deco.path] = st]
             /\ deco' = [deco EXCEPT !.pc = "done", !.ltime = lt, !.res = st]
     ELSE StoreStatus(deco.path, "local_only")
  /\ UNCHANGED <<now, localFiles, vault>>

\* refreshFile (lines 437-440); refreshAll clears every entry the same way.
RefreshFile(p) ==
  /\ syncStatusCache[p] # NoStatus
  /\ syncStatusCache' = [syncStatusCache EXCEPT ![p] = NoStatus]
  /\ UNCHANGED <<now, localFiles, vault, deco>>

\* The user saves a workspace file: its content is c, its mtime the clock.
LocalSave(p, c) ==
  /\ localFiles[p] # File(c, now)
  /\ localFiles' = [localFiles EXCEPT ![p] = File(c, now)]
  /\ UNCHANGED <<now, vault, syncStatusCache, deco>>

\* Another machine uploads the file: updateEnvFile of the path's record.
RemoteSave(c) ==
  /\ vault # <<>>
  /\ vault[1] # Doc(vault[1].id, vault[1].path, c, now)
  /\ vault' = UpdateEnvFile(vault[1].id, c, now)
  /\ UNCHANGED <<now, localFiles, syncStatusCache, deco>>

\* =====================================================================
\* Triggers of a sync: AutoSyncService (src/unnamed/part_004, lines 185-750)
\* The workspace and the vault are inputs here: what a stat, a file search
\* or a remote list returns is chosen by the environment.
\* =====================================================================
\* The watchers' patterns match the repository's env files and others.
WatchedPaths == Paths \cup {".env.local"}
\* Callers of a full pass: commands, activation, branch and workspace changes.
Requesters == {"q1", "q2"}

IdleAutoPass == [pc |-> "idle", todo |-> {}]

AutoQuiet ==
  /\ isAutoSyncRunning = FALSE
  /\ autoPass = [q \in Requesters |-> IdleAutoPass]
  /\ fullSync = 0
  /\ handlers = {}
  /\ autoSyncTimeouts = [p \in WatchedPaths |-> None]
  /\ timers = {}
  /\ perform = {}
  /\ createTimers = {}
  /\ recentlyProcessedFiles = {}
  /\ markTimers = {}
  /\ autoHist = [starts |-> 0, events |-> 0, nextId |-> 1, performLog |-> {},
                 uploads |-> {}, wrote |-> [p \in WatchedPaths |-> None],
                 disposed |-> FALSE, atDispose |-> {}]

\* A watcher event reaches its handler, which first awaits isConfigured().
Handler(k, p) == [kind |-> k, path |-> p, at |-> now]

\* markAsRecentlyProcessed (lines 600-607).
MarkedFiles(p) == recentlyProcessedFiles \cup {p}
MarkedTimers(p) == markTimers \cup {[path |-> p, due |-> now + RecentTTL]}

\* A watcher event at time e makes syncSingleEnvFile be called for p.
Uploaded(p, e, v) == autoHist.uploads \cup {[path |-> p, ev |-> e, via |-> v]}

\* autoCreateMissingEnvFiles up to its first await (lines 437-441).
AutoCreateMissingEnvFiles(q) ==
  /\ autoPass[q].pc = "idle"
  /\ autoHist.starts < MaxStarts
  /\ autoPass' = [autoPass EXCEPT ![q].pc = "isConfigured"]
  /\ autoHist' = [autoHist EXCEPT !.starts = @ + 1]
  /\ UNCHANGED <<now, isAutoSyncRunning, fullSync, handlers, autoSyncTimeouts,
                 timers, perform, createTimers, recentlyProcessedFiles, markTimers>>

\* Lines 441-462: without configuration, workspace or autoCreateFiles it
\* returns; while isAutoSyncRunning it returns; otherwise it sets the flag
\* and createMissingLocalFiles asks for the remote files.
AutoConfiguredSettles(q, proceed) ==
  /\ autoPass[q].pc = "isConfigured"
  /\ IF proceed /\ autoCreateFiles /\ ~isAutoSyncRunning
     THEN /\ isAutoSyncRunning' = TRUE
          /\ autoPass' = [autoPass EXCEPT ![q].pc = "remoteList"]
     ELSE /\ autoPass' = [autoPass EXCEPT ![q] = IdleAutoPass]
          /\ UNCHANGED isAutoSyncRunning
  /\ UNCHANGED <<now, fullSync, handlers, autoSyncTimeouts, timers, perform,
                 createTimers, recentlyProcessedFiles, markTimers, autoHist>>

\* createMissingLocalFiles, lines 482-496: the remote files arrive (none
\* when the call throws) and the first stat is issued.
AutoRemoteListed(q, remote) ==
  /\ autoPass[q].pc = "remoteList"
  /\ autoPass' = [autoPass EXCEPT ![q] =
                    IF remote = {} THEN [pc |-> "localScan", todo |-> {}]
                    ELSE [pc |-> "create", todo |-> remote]]
  /\ UNCHANGED <<now, isAutoSyncRunning, fullSync, handlers, autoSyncTimeouts,
                 timers, perform, createTimers, recentlyProcessedFiles, markTimers,
                 autoHist>>

\* Lines 490-508: the stat of one remote file's path settles; a missing file
\* is written by createLocalFileFromRemote (writeFileSync), which makes the
\* watchers report a created file.  A failed write is logged and skipped.
AutoStatSettles(q, p, found) ==
  /\ autoPass[q].pc = "create"
  /\ p \in autoPass[q].todo
  /\ autoPass' = [autoPass EXCEPT ![q] =
                    IF autoPass[q].todo = {p}
                    THEN [pc |-> "localScan", todo |-> {}]
                    ELSE [pc |-> "create", todo |-> autoPass[q].todo \ {p}]]
  /\ IF found = "missing"
     THEN /\ handlers' = handlers \cup {Handler("create", p)}
          /\ autoHist' = [autoHist EXCEPT !.wrote[p] = now]
     ELSE UNCHANGED <<handlers, autoHist>>
  /\ UNCHANGED <<now, isAutoSyncRunning, fullSync, autoSyncTimeouts, timers,
                 perform, createTimers, recentlyProcessedFiles, markTimers>>

\* A pass that returns without its finally block.
AutoPassReturnsFlagKept(q) ==
  /\ isAutoSyncRunning' = isAutoSyncRunning
  /\ autoPass' = [autoPass EXCEPT ![q] = IdleAutoPass]

\* Lines 467-474: refreshAll, and the finally block clears the flag.
AutoPassReturns(q) ==
  /\ isAutoSyncRunning' = FALSE
  /\ autoPass' = [autoPass EXCEPT ![q] = IdleAutoPass]

\* syncLocalOnlyFiles (lines 518-576): the two file searches and the remote
\* list settle; localOnly are the files without a remote record.  Each is
\* marked as recently processed and uploaded, one after the other.
AutoNextUpload(q, localOnly) ==
  IF localOnly = {}
  THEN /\ AutoPassReturns(q)
       /\ UNCHANGED <<recentlyProcessedFiles, markTimers>>
  ELSE \E p \in localOnly :
         /\ recentlyProcessedFiles' = MarkedFiles(p)
         /\ markTimers' = MarkedTimers(p)
         /\ autoPass' = [autoPass EXCEPT ![q] =
                           [pc |-> "upload", todo |-> localOnly \ {p}]]
         /\ UNCHANGED isAutoSyncRunning

AutoLocalScanned(q, localOnly) ==
  /\ autoPass[q].pc = "localScan"
  /\ AutoNextUpload(q, localOnly)
  /\ UNCHANGED <<now, fullSync, handlers, autoSyncTimeouts, timers, perform,
                 createTimers, autoHist>>

\* await syncSingleEnvFile settles (lines 559-567); an error is logged.
AutoUploadSettles(q) ==
  /\ autoPass[q].pc = "upload"
  /\ AutoNextUpload(q, autoPass[q].todo)
  /\ UNCHANGED <<now, fullSync, handlers, autoSyncTimeouts, timers, perform,
                 createTimers, autoHist>>

\* EnvFileSyncService.syncAllFiles (envFileSyncService.ts, lines 15-47),
\* called by the sync-all command: it tests no flag and sets none.  Its
\* steps are the pass of the reconciliation component above.
SyncAllFiles ==
  /\ autoHist.starts < MaxStarts
  /\ fullSync' = fullSync + 1
  /\ autoHist' = [autoHist EXCEPT !.starts = @ + 1]
  /\ UNCHANGED <<now, isAutoSyncRunning, autoPass, handlers, autoSyncTimeouts,
                 timers, perform, createTimers, recentlyProcessedFiles, markTimers>>

\* One of them returns or throws.
SyncAllFilesSettles ==
  /\ fullSync > 0
  /\ fullSync' = fullSync - 1
  /\ UNCHANGED <<now, isAutoSyncRunning, autoPass, handlers, autoSyncTimeouts,
                 timers, perform, createTimers, recentlyProcessedFiles, markTimers,
                 autoHist>>

\* The user saves or creates a watched file: onDidChange / onDidCreate run
\* up to await isConfigured() (lines 256-262, 298-304).  A path that both
\* glob patterns match is reported twice; the second handler repeats the
\* first one's scheduleAutoSync, or finds the path recently processed.
UserEvent(k, p) ==
  /\ autoHist.events < MaxEvents
  /\ handlers' = handlers \cup {Handler(k, p)}
  /\ autoHist' = [autoHist EXCEPT !.events = @ + 1]
  /\ UNCHANGED <<now, isAutoSyncRunning, autoPass, fullSync, autoSyncTimeouts,
                 timers, perform, createTimers, recentlyProcessedFiles, markTimers>>

\* onDidChange after the await and scheduleAutoSync (lines 304-310,
\* 367-381): the timer recorded for the path is cleared, a new one is set
\* and recorded.
ChangeHandlerResumes(h, enabled) ==
  /\ h \in handlers /\ h.kind = "change"
  /\ handlers' = handlers \ {h}
  /\ IF enabled
     THEN /\ timers' = {t \in timers : t.id # autoSyncTimeouts[h.path]}
                         \cup {[id |-> autoHist.nextId, path |-> h.path,
                                due |-> now + DebounceDelay, ev |-> h.at]}
          /\ autoSyncTimeouts' = [autoSyncTimeouts EXCEPT ![h.path] = autoHist.nextId]
          /\ autoHist' = [autoHist EXCEPT !.nextId = @ + 1]
     ELSE UNCHANGED <<timers, autoSyncTimeouts, autoHist>>
  /\ UNCHANGED <<now, isAutoSyncRunning, autoPass, fullSync, perform, createTimers,
                 recentlyProcessedFiles, markTimers>>

\* The timer callback starts performAutoSync, which awaits isConfigured()
\* and the stat of the file (lines 375-376, 613-630).
TimerFires(t) ==
  /\ t \in timers /\ now >= t.due
  /\ timers' = timers \ {t}
  /\ perform' = perform \cup {[id |-> t.id, path |-> t.path, ev |-> t.ev,
                               pc |-> "local"]}
  /\ autoHist' = [autoHist EXCEPT !.performLog =
                    @ \cup {[id |-> t.id, path |-> t.path, ev |-> t.ev, at |-> now]}]
  /\ UNCHANGED <<now, isAutoSyncRunning, autoPass, fullSync, handlers,
                 autoSyncTimeouts, createTimers, recentlyProcessedFiles, markTimers>>

\* Lines 616-639: unconfigured, or the file is gone: performAutoSync returns
\* and the callback deletes the path's map entry (line 377); otherwise
\* syncSingleEnvFile is called.
PerformLocalSettles(x, proceed) ==
  /\ x \in perform /\ x.pc = "local"
  /\ IF proceed
     THEN /\ perform' = (perform \ {x}) \cup {[x EXCEPT !.pc = "sync"]}
          /\ autoHist' = [autoHist EXCEPT !.uploads = Uploaded(x.path, x.ev, "change")]
          /\ UNCHANGED autoSyncTimeouts
     ELSE /\ perform' = perform \ {x}
          /\ autoSyncTimeouts' = [autoSyncTimeouts EXCEPT ![x.path] = None]
          /\ UNCHANGED autoHist
  /\ UNCHANGED <<now, isAutoSyncRunning, autoPass, fullSync, handlers, timers,
                 createTimers, recentlyProcessedFiles, markTimers>>

\* syncSingleEnvFile settles (lines 639-665): messages, then line 377
\* deletes whatever the map holds for the path.
PerformSyncSettles(x) ==
  /\ x \in perform /\ x.pc = "sync"
  /\ perform' = perform \ {x}
  /\ autoSyncTimeouts' = [autoSyncTimeouts EXCEPT ![x.path] = None]
  /\ UNCHANGED <<now, isAutoSyncRunning, autoPass, fullSync, handlers, timers,
                 createTimers, recentlyProcessedFiles, markTimers, autoHist>>

\* onDidCreate after the await (lines 262-293): a recently processed path
\* is skipped; otherwise it is marked and synced after a delay.
CreateHandlerResumes(h, enabled) ==
  /\ h \in handlers /\ h.kind = "create"
  /\ handlers' = handlers \ {h}
  /\ IF enabled /\ h.path \notin recentlyProcessedFiles
     THEN /\ recentlyProcessedFiles' = MarkedFiles(h.path)
          /\ markTimers' = MarkedTimers(h.path)
          /\ createTimers' = createTimers \cup
               {[path |-> h.path, due |-> now + NewFileDelay, ev |-> h.at]}
     ELSE UNCHANGED <<recentlyProcessedFiles, markTimers, createTimers>>
  /\ UNCHANGED <<now, isAutoSyncRunning, autoPass, fullSync, autoSyncTimeouts,
                 timers, perform, autoHist>>

\* The delayed syncSingleEnvFile of a created file (lines 278-293).
CreateTimerFires(t) ==
  /\ t \in createTimers /\ now >= t.due
  /\ createTimers' = createTimers \ {t}
  /\ autoHist' = [autoHist EXCEPT !.uploads = Uploaded(t.path, t.ev, "create")]
  /\ UNCHANGED <<now, isAutoSyncRunning, autoPass, fullSync, handlers,
                 autoSyncTimeouts, timers, perform, recentlyProcessedFiles,
                 markTimers>>

\* The timer of markAsRecentlyProcessed (lines 604-606).
MarkExpires(m) ==
  /\ m \in markTimers /\ now >= m.due
  /\ markTimers' = markTimers \ {m}
  /\ recentlyProcessedFiles' = recentlyProcessedFiles \ {m.path}
  /\ UNCHANGED <<now, isAutoSyncRunning, autoPass, fullSync, handlers,
                 autoSyncTimeouts, timers, perform, createTimers, autoHist>>

\* dispose (lines 736-749): the timers recorded in autoSyncTimeouts are
\* cleared and the map is emptied; the watchers are disposed.
\* autoHist.atDispose: the timers pending when dispose was called (a debounce
\* timer by its id, the timer of a created file by the time it is due).
AutoDispose ==
  /\ ~autoHist.disposed
  /\ timers' = {t \in timers : \A p \in WatchedPaths : autoSyncTimeouts[p] # t.id}
  /\ autoSyncTimeouts' = [p \in WatchedPaths |-> None]
  /\ autoHist' = [autoHist EXCEPT !.disposed = TRUE,
                                  !.atDispose = {[kind |-> "debounce", path |-> t.path, id |-> t.id] : t \in timers}
                                                \cup {[kind |-> "create", path |-> t.path, id |-> t.due] : t \in createTimers}]
  /\ UNCHANGED <<now, isAutoSyncRunning, autoPass, fullSync, handlers, perform,
                 createTimers, recentlyProcessedFiles, markTimers>>

\* Time passes only when no timer is due and no local read (secret storage,
\* stat) is outstanding: those complete well within a unit of time.
AutoTick ==
  /\ handlers = {}
  /\ \A t \in timers \cup createTimers \cup markTimers : t.due > now
  /\ \A x \in perform : x.pc # "local"
  /\ \A q \in Requesters : autoPass[q].pc \notin {"isConfigured", "create"}
  /\ Tick
  /\ UNCHANGED autoVars

\* =====================================================================
\* Vault resolution: OnePasswordService.ensureDevOrbVault and the settings
\*   src/src/services/environment/onePasswordService.ts, lines 60-67, 101-196
\* =====================================================================
\* devOrb.env.onePassword.vaultId: unset, blank, or a vault's id.
ConfigValues == {"", " ", "v1", "v2"}
\* The vault titled DevOrb that vaults.list can report.
DevOrbVault == "v1"

\* Line 167: this.config.vaultId && this.config.vaultId.trim() !== ''
VaultConfigured_Never(v) == FALSE
VaultConfigured(v) == v \notin {"", " "}

\* cfg: the configured id when the call was made; lists: vaults.list calls.
IdleEns == [pc |-> "idle", res |-> "", cfg |-> "", cached |-> FALSE, lists |-> 0]

VaultQuiet == ens = IdleEns

\* ensureDevOrbVault up to its first await (lines 155-176).
EnsureDevOrbVault ==
  /\ ens.pc \in {"idle", "done"}
  /\ LET e == [IdleEns EXCEPT !.cfg = configVaultId, !.cached = VaultCacheFresh]
     IN IF ~client
        THEN /\ ens' = [e EXCEPT !.pc = "done", !.res = "error"]
             /\ UNCHANGED vaultCache
        ELSE IF VaultCacheFresh
        THEN /\ ens' = [e EXCEPT !.pc = "done", !.res = vaultCache.vaultId]
             /\ UNCHANGED vaultCache
        ELSE IF VaultConfigured(configVaultId)
        THEN /\ ens' = [e EXCEPT !.pc = "done", !.res = configVaultId]
             /\ vaultCache' = [vaultId |-> configVaultId, timestamp |-> now]
        ELSE /\ ens' = [e EXCEPT !.pc = "vaultsList", !.lists = 1]
             /\ UNCHANGED vaultCache
  /\ UNCHANGED <<now, client, configVaultId>>

\* vaults.list settles (lines 176-189): a vault titled DevOrb is written to
\* the settings; without one, or when the call throws, the caller gets an
\* error.
EnsureListSettles(o) ==
  /\ ens.pc = "vaultsList"
  /\ ens' = IF o = "found" THEN [ens EXCEPT !.pc = "configUpdate"]
            ELSE [ens EXCEPT !.pc = "done", !.res = "error"]
  /\ UNCHANGED <<now, client, configVaultId, vaultCache>>

\* updateVaultIdInConfig settles (lines 182-185, 192-196).  After
\* config.update the field and the cache are set; its rejection propagates.
EnsureConfigUpdated(ok) ==
  /\ ens.pc = "configUpdate"
  /\ IF ok
     THEN /\ configVaultId' = DevOrbVault
          /\ vaultCache' = [vaultId |-> DevOrbVault, timestamp |-> now]
          /\ ens' = [ens EXCEPT !.pc = "done", !.res = DevOrbVault]
     ELSE /\ ens' = [ens EXCEPT !.pc = "done", !.res = "error"]
          /\ UNCHANGED <<configVaultId, vaultCache>>
  /\ UNCHANGED <<now, client>>

\* The user edits the setting; the configuration watcher runs initialize()
\* (lines 101-103), which reloads this.config and leaves vaultCache alone.
Initialize(v) ==
  /\ v # configVaultId
  /\ configVaultId' = v
  /\ UNCHANGED <<now, client, vaultCache, ens>>

\* ------------------------------------------------------- specifications
\* =====================================================================
\* Per-variable secret sync: EnvironmentService.syncEnvFile
\* (src/src/envService.ts, lines 35-74) over
\* OnePasswordService.createOrUpdateSecret (onePasswordService.ts,
\* lines 418-521)
\* =====================================================================
\* The file path syncEnvFile is called with, and the File Path fields found
\* in the vault.
SecretPath == ".env"
ItemPaths == {".env", ".env.local"}
SecretValues == {"abc", "xyz"}

\* A line of the file, by what parseEnvFile (lines 61-71) makes of it:
\* "kv" has an '=' at an index > 0, "comment" starts with '#', "blank"
\* trims to nothing, "nokey" has no '=' or starts with it.
KV(k, v) == [kind |-> "kv", key |-> k, value |-> v]
OtherLine(kind) == [kind |-> kind, key |-> "", value |-> ""]
ApiKeyAbc == <<KV("API_KEY", "abc")>>
EnvTexts ==
  {ApiKeyAbc,
   <<OtherLine("comment"), KV("API_KEY", "abc"), OtherLine("blank")>>,
   <<KV("API_KEY", "xyz")>>,
   <<KV("API_KEY", "abc"), OtherLine("nokey"), KV("API_KEY", "xyz")>>}

\* parseEnvFile: the key/value pairs of the lines that have one, in order.
RECURSIVE ParseEnvFile(_)
ParseEnvFile(text) ==
  IF text = <<>> THEN <<>>
  ELSE IF Head(text).kind = "kv"
       THEN <<[key |-> Head(text).key, value |-> Head(text).value]>>
              \o ParseEnvFile(Tail(text))
       ELSE ParseEnvFile(Tail(text))

\* Line 427: `${prefix}${secretName}` with the configured prefix.
ItemTitle(secretName) == <<"prefix", secretName>>

\* The fields createSecret stores (lines 474-518).
SecretItem(i, n, v, p) ==
  [id |-> i, title |-> ItemTitle(n), name |-> n, value |-> v, path |-> p]

\* Lines 443-445: same variable name, value and file path.
SecretMatches(item, variable, filePath) ==
  /\ item.name = variable.key
  /\ item.value = variable.value
  /\ item.path = filePath

\* Lines 434-435: the ids of the listed items whose title is the wanted
\* one, in list order.
RECURSIVE TitleMatches(_, _)
TitleMatches(items, title) ==
  IF items = <<>> THEN <<>>
  ELSE IF Head(items).title = title
       THEN <<Head(items).id>> \o TitleMatches(Tail(items), title)
       ELSE TitleMatches(Tail(items), title)

ItemById(i) ==
  secretItems[CHOOSE k \in 1..Len(secretItems) : secretItems[k].id = i]

HasMatch(variable) ==
  \E k \in 1..Len(secretItems) :
    SecretMatches(secretItems[k], variable, SecretPath)

IdleSsync == [pc |-> "idle", todo |-> <<>>, cands |-> <<>>]
\* History of the runs of syncEnvFile:
\*   runs       runs started
\*   cur        items the current run has created
\*   results    per run that returned, the number of items it created
\*   text1, fresh, quiet
\*              the file at the start of the first run that returned, that
\*              no item matched any of its variables then, and that the
\*              file has not been edited since
\*   getFailed  an items.get of the duplicate check was rejected
NoSecHist ==
  [runs |-> 0, cur |-> 0, results |-> <<>>,
   fresh |-> FALSE, text1 |-> <<>>, quiet |-> FALSE, getFailed |-> FALSE]

SecQuiet ==
  /\ envText = <<>>
  /\ secretItems = <<>>
  /\ ssync = IdleSsync
  /\ secHist = NoSecHist

\* Any .env file of the set and a vault that holds no secret item or one
\* this extension created earlier.
SecInit ==
  /\ envText \in EnvTexts
  /\ secretItems \in {<<>>} \cup
       {<<SecretItem(1, "API_KEY", v, p)>> : v \in SecretValues, p \in ItemPaths}
  /\ ssync = IdleSsync
  /\ secHist = NoSecHist

\* The loop of syncEnvFile (lines 42-44) moves on to the next variable, or
\* syncEnvFile returns.
SecAdvance(created) ==
  LET rest == Tail(ssync.todo)
      h == [secHist EXCEPT !.cur = @ + created]
  IN /\ ssync' = IF rest = <<>> THEN IdleSsync
                 ELSE [pc |-> "list", todo |-> rest, cands |-> <<>>]
     /\ secHist' = IF rest = <<>>
                   THEN [h EXCEPT !.results = Append(@, h.cur)]
                   ELSE h

\* syncEnvFile, lines 35-43: parseEnvFile, then the first
\* createOrUpdateSecret runs up to its items.list (line 430).
SyncEnvFile ==
  /\ ssync.pc = "idle"
  /\ secHist.runs < MaxRuns
  /\ LET variables == ParseEnvFile(envText)
         h == IF secHist.results = <<>>
              THEN [secHist EXCEPT
                      !.runs = @ + 1, !.cur = 0, !.getFailed = FALSE,
                      !.quiet = TRUE, !.text1 = envText,
                      !.fresh = \A k \in 1..Len(variables) : ~HasMatch(variables[k])]
              ELSE [secHist EXCEPT !.runs = @ + 1, !.cur = 0, !.getFailed = FALSE]
     IN /\ ssync' = IF variables = <<>> THEN IdleSsync
                    ELSE [pc |-> "list", todo |-> variables, cands |-> <<>>]
        /\ secHist' = IF variables = <<>>
                      THEN [h EXCEPT !.results = Append(@, 0)]
                      ELSE h
  /\ UNCHANGED <<envText, secretItems>>

\* createOrUpdateSecret, lines 424-435: ensureDevOrbVault and items.list
\* settle; a rejection leaves createOrUpdateSecret and syncEnvFile.
SecListSettles(ok) ==
  /\ ssync.pc = "list"
  /\ IF ok
     THEN LET c == TitleMatches(secretItems, ItemTitle(Head(ssync.todo).key))
          IN ssync' = [ssync EXCEPT !.cands = c,
                                    !.pc = IF c = <<>> THEN "create" ELSE "get"]
     ELSE ssync' = IdleSsync
  /\ UNCHANGED <<envText, secretItems, secHist>>

\* Lines 436-457: items.get of the next candidate settles.  A rejection is
\* caught (lines 449-451) and the candidate passed over; a match ends
\* createOrUpdateSecret; with no candidate left createSecret is called.
SecGetSettles(ok) ==
  /\ ssync.pc = "get"
  /\ LET variable == Head(ssync.todo)
         rest == Tail(ssync.cands)
     IN IF ok /\ SecretMatches(ItemById(Head(ssync.cands)), variable, SecretPath)
        THEN SecAdvance(0)
        ELSE /\ ssync' = [ssync EXCEPT !.cands = rest,
                                       !.pc = IF rest = <<>> THEN "create" ELSE "get"]
             /\ secHist' = [secHist EXCEPT !.getFailed = @ \/ ~ok]
  /\ UNCHANGED <<envText, secretItems>>

\* Lines 460-462 and createSecret (lines 466-521): items.create settles; a
\* rejection leaves createOrUpdateSecret and syncEnvFile.
SecCreateSettles(ok) ==
  /\ ssync.pc = "create"
  /\ ok => Len(secretItems) < MaxSecrets
  /\ IF ok
     THEN /\ secretItems' =
               Append(secretItems,
                      SecretItem(Len(secretItems) + 1, Head(ssync.todo).key,
                                 Head(ssync.todo).value, SecretPath))
          /\ SecAdvance(1)
     ELSE /\ ssync' = IdleSsync
          /\ UNCHANGED <<secretItems, secHist>>
  /\ UNCHANGED envText

\* The user saves the file with other lines.
EditEnvFile(text) ==
  /\ text # envText
  /\ envText' = text
  /\ secHist' = [secHist EXCEPT !.quiet = FALSE]
  /\ UNCHANGED <<secretItems, ssync>>

\* The settings at their defaults: envConfig.get('autoCreateFiles', true).
CfgQuiet == autoCreateFiles = TRUE

\* The user changes devOrb.env.autoCreateFiles.
SetAutoCreateFiles(b) ==
  /\ b # autoCreateFiles
  /\ autoCreateFiles' = b

\* =====================================================================
\* The service account token: ExtensionManager.handleConfigurationChange
\* and handleServiceAccountTokenChange (src/src/extension.ts, lines
\* 239-309), OnePasswordService.setServiceAccountToken
\* (onePasswordService.ts, lines 139-144)
\* =====================================================================
\* A token string as its pieces: "sp" is white space, "ops_" the prefix,
\* anything else other text.
Tokens ==
  {<<>>, <<"sp">>, <<"ops_", "x">>, <<"ops_", "y">>, <<"x">>,
   <<"sp", "ops_", "x">>, <<"ops_", "x", "sp">>}

\* String.prototype.trim.
RECURSIVE TrimStart(_)
TrimStart(t) ==
  IF t # <<>> /\ Head(t) = "sp" THEN TrimStart(Tail(t)) ELSE t

RECURSIVE TrimEnd(_)
TrimEnd(t) ==
  IF t # <<>> /\ t[Len(t)] = "sp" THEN TrimEnd(SubSeq(t, 1, Len(t) - 1)) ELSE t

Trim(t) == TrimEnd(TrimStart(t))

\* token.startsWith('ops_')
StartsWithOps(t) == t # <<>> /\ Head(t) = "ops_"

NoToken == <<"undefined">>
IdleTok == [pc |-> "idle", read |-> <<>>, processed |-> FALSE, rejected |-> FALSE]

TokQuiet ==
  /\ tokenSetting = <<>>
  /\ secretToken = NoToken
  /\ tok = IdleTok

\* The user saves a value of the setting; onDidChangeConfiguration calls
\* handleConfigurationChange, which awaits envService.initialize (line 242).
OnTokenSettingChanged(t) ==
  /\ tok.pc = "idle"
  /\ t # tokenSetting
  /\ tokenSetting' = t
  /\ tok' = [IdleTok EXCEPT !.pc = "init"]
  /\ UNCHANGED secretToken

\* initialize settles.  Its rejection leaves handleConfigurationChange.
\* Otherwise handleServiceAccountTokenChange reads the setting (lines
\* 267-270): an empty or blank value ends it; a value without the prefix
\* goes to config.update (lines 272-274); any other to
\* setServiceAccountToken (line 278).
HandleServiceAccountTokenChange(ok) ==
  /\ tok.pc = "init"
  /\ tok' = IF ~ok THEN IdleTok
            ELSE IF tokenSetting = <<>> \/ Trim(tokenSetting) = <<>>
                 THEN [IdleTok EXCEPT !.read = tokenSetting]
                 ELSE [pc |-> IF StartsWithOps(tokenSetting) THEN "store" ELSE "clearInvalid",
                       read |-> tokenSetting, processed |-> TRUE, rejected |-> FALSE]
  /\ UNCHANGED <<tokenSetting, secretToken>>

\* setServiceAccountToken (lines 139-144): throws without the prefix,
\* otherwise secretStorage.store settles.  A throw or rejection goes to the
\* catch block (lines 304-306).
SetServiceAccountToken(ok) ==
  /\ tok.pc = "store"
  /\ IF ok /\ StartsWithOps(tok.read)
     THEN /\ secretToken' = tok.read
          /\ tok' = [tok EXCEPT !.pc = "clearValid"]
     ELSE /\ tok' = [tok EXCEPT !.pc = "clearCatch"]
          /\ UNCHANGED secretToken
  /\ UNCHANGED tokenSetting

\* config.update('onePassword.serviceAccountToken', '', Global) settles
\* (lines 274, 279, 306).  In the try block a rejection goes to the catch
\* block; in the catch block it leaves the handler.
TokenConfigUpdated(ok) ==
  /\ tok.pc \in {"clearInvalid", "clearValid", "clearCatch"}
  /\ tokenSetting' = IF ok THEN <<>> ELSE tokenSetting
  /\ tok' = [tok EXCEPT
               !.rejected = @ \/ ~ok,
               !.pc = IF tok.pc = "clearCatch" THEN "idle"
                      ELSE IF ~ok THEN "clearCatch"
                      ELSE IF tok.pc = "clearValid" THEN "rest" ELSE "idle"]
  /\ UNCHANGED secretToken

\* Lines 280-303: initialize, ensureDevOrbVault (caught), refreshAll,
\* updateStatusBar settle; a rejection goes to the catch block.
TokenSavedSettles(ok) ==
  /\ tok.pc = "rest"
  /\ tok' = [tok EXCEPT !.pc = IF ok THEN "idle" ELSE "clearCatch"]
  /\ UNCHANGED <<tokenSetting, secretToken>>

\* =====================================================================
\* This client's mutations of the vault and the secrets cache
\* (onePasswordService.ts: updateSecretValue, lines 586-616; deleteSecret,
\* lines 652-673)
\* =====================================================================
\* own.ver: the vault version the latest mutation that returned produced
\* (0: none yet); own.invalidated: it called invalidateSecretsCache.
NoOwn == [ver |-> 0, invalidated |-> FALSE]
OwnQuiet == own = NoOwn

\* updateSecretValue, lines 609-611: items.put has resolved, the item is
\* changed, invalidateSecretsCache() (lines 408-411) runs and the call
\* returns.  A rejection changes nothing and is rethrown (lines 612-615).
UpdateSecretValueSettles ==
  /\ client
  /\ remoteVer < MaxVer
  /\ remoteVer' = remoteVer + 1
  /\ secretsCache' = NoEntry
  /\ load' = [l \in LoadIds |->
               IF LoadInFlight(l) THEN [load[l] EXCEPT !.inval = TRUE] ELSE load[l]]
  /\ own' = [ver |-> remoteVer + 1, invalidated |-> TRUE]
  /\ UNCHANGED <<now, client, configVaultId, vaultCache, isLoadingSecrets,
                 pendingSecretsPromise, reader>>

\* deleteSecret, lines 667-669: items.delete has resolved, the item is gone
\* and the call returns.  A rejection changes nothing and is only logged
\* (lines 670-672).
DeleteSecretSettles ==
  /\ client
  /\ remoteVer < MaxVer
  /\ remoteVer' = remoteVer + 1
  /\ own' = [ver |-> remoteVer + 1, invalidated |-> FALSE]
  /\ UNCHANGED <<now, client, configVaultId, vaultCache, secretsCache,
                 isLoadingSecrets, pendingSecretsPromise, load, reader>>

\* =====================================================================
\* Which local files a pass uploads: AutoSyncService.syncLocalOnlyFiles
\* (src/unnamed/part_004, lines 518-576) and
\* EnvFileSyncService.uploadMissingRemoteFiles (envFileSyncService.ts,
\* lines 188-206)
\* =====================================================================
\* Workspace-relative paths as their segments.
JoinPaths == {<<".env">>, <<"config", ".env">>, <<".env.local">>}
\* The two passes.
JoinKinds == {"auto", "full"}

\* path.basename
Basename(p) == p[Len(p)]

\* syncLocalOnlyFiles, lines 547-551: a local file has a remote file when
\* a record has its relative path or its base name.
AutoLocalOnly(local, remote) ==
  {l \in local : ~\E rf \in remote : rf = l \/ Basename(rf) = Basename(l)}

\* uploadMissingRemoteFiles, lines 193-196: remotePaths.has(filePath).
FullLocalOnly(local, remote) == {l \in local : l \notin remote}

\* jn.local, jn.remote: the env files of the workspace and the paths of the
\* vault's records; jn.scanned, jn.listed: what the running pass read;
\* jn.todo: the files it still uploads.
IdleJoin(local, remote) ==
  [pc |-> "idle", kind |-> "none", local |-> local, remote |-> remote,
   scanned |-> {}, listed |-> {}, todo |-> {}]

JoinQuiet == jn = IdleJoin({}, {})

JoinInit ==
  \E local \in SUBSET JoinPaths, remote \in SUBSET JoinPaths :
    jn = IdleJoin(local, remote)

\* The file search and the remote list of a pass have settled (part_004
\* lines 524-541; envFileSyncService.ts lines 22-41).
JoinScanned(kind) ==
  /\ jn.pc = "idle"
  /\ jn' = [jn EXCEPT
              !.pc = "upload", !.kind = kind,
              !.scanned = jn.local, !.listed = jn.remote,
              !.todo = IF kind = "auto" THEN AutoLocalOnly(jn.local, jn.remote)
                       ELSE FullLocalOnly(jn.local, jn.remote)]

\* One iteration of the loop: syncSingleEnvFile / syncFileToRemote settles.
\* A rejection is logged by the auto pass and ends the full pass.
JoinUploadSettles(p, ok) ==
  /\ jn.pc = "upload"
  /\ p \in jn.todo
  /\ jn' = [jn EXCEPT
              !.remote = IF ok THEN @ \cup {p} ELSE @,
              !.todo = IF ~ok /\ jn.kind = "full" THEN {} ELSE @ \ {p},
              !.pc = IF ~ok /\ jn.kind = "full" THEN "thrown" ELSE @]

\* The loop is over and the pass returns.
JoinReturns ==
  /\ jn.pc \in {"upload", "thrown"}
  /\ jn.todo = {}
  /\ jn' = IdleJoin(jn.local, jn.remote)

\* An env file is created in or removed from the workspace.
JoinLocalChange(p) ==
  /\ jn.pc = "idle"
  /\ jn' = [jn EXCEPT !.local = IF p \in @ THEN @ \ {p} ELSE @ \cup {p}]

\* =====================================================================
\* Repository filtering: OnePasswordService.loadSecretsInternal
\* (onePasswordService.ts, lines 256-385) and gatherSecretMetadata (lines
\* 524-563)
\* =====================================================================
\* Repository names; "" is no name: a workspace without an origin remote
\* (gatherSecretMetadata), an item without a Repository value.
RepoNames == {"", "repoA", "repoB"}
ScopeItems == {"i1", "i2"}
\* What secrets.resolveAll answers for one item: every field resolved, the
\* Repository field failed and another resolved, or every field failed.
Resolutions == {"all", "noRepo", "none"}

\* Lines 340-345: the value of itemData.repository after the responses have
\* been processed (undefined, written "", when the field did not resolve).
ResolvedRepository(recorded, resolution) ==
  IF resolution = "all" THEN recorded ELSE ""

\* Line 352: !repository || !currentRepoName || repository === currentRepoName
RepositoryPasses(repository, currentRepoName) ==
  \/ repository = ""
  \/ currentRepoName = ""
  \/ repository = currentRepoName

\* sc.recorded: the Repository value each devorb item of the vault holds;
\* sc.repo: the workspace's repository name; sc.current: the name the
\* running load read (line 288); sc.result: the ids of the items returned.
IdleScope(recorded, repo) ==
  [pc |-> "idle", recorded |-> recorded, repo |-> repo, current |-> "",
   result |-> {}]

ScopeQuiet == sc = IdleScope([i \in ScopeItems |-> ""], "")

ScopeInit ==
  \E recorded \in [ScopeItems -> RepoNames], repo \in RepoNames :
    sc = IdleScope(recorded, repo)

\* loadSecretsInternal, lines 256-319: the items are listed, the current
\* repository name is read and secrets.resolveAll is called.
LoadSecretsInternal ==
  /\ sc.pc = "idle"
  /\ sc' = [sc EXCEPT !.pc = "resolve", !.current = sc.repo, !.result = {}]

\* Lines 321-376: the responses are processed and the items filtered; a
\* rejection returns [] (lines 378-383).
ScopeResolveSettles(ok, res) ==
  /\ sc.pc = "resolve"
  /\ sc' = [sc EXCEPT
              !.pc = "done",
              !.result =
                IF ~ok THEN {}
                ELSE {i \in ScopeItems :
                        /\ res[i] # "none"
                        /\ RepositoryPasses(ResolvedRepository(sc.recorded[i], res[i]),
                                            sc.current)}]

\* The caller has its items; the next load may start.
ScopeReturned ==
  /\ sc.pc = "done"
  /\ sc' = [sc EXCEPT !.pc = "idle"]

\* Another workspace is opened, or the origin remote changes.
ScopeRepoChanges(r) ==
  /\ sc.pc = "idle"
  /\ r # sc.repo
  /\ sc' = [sc EXCEPT !.repo = r]

\* =====================================================================
\* Conflicts between a file's variable and the vault's secrets:
\* EnvironmentViewProvider (src/unnamed/part_003): parseEnvFile (lines
\* 1476-1495), checkForVariableConflicts (lines 1184-1211),
\* getFileSecretStatus (lines 1527-1604)
\* =====================================================================
\* The text after the '=' of the variable's line, as pieces: "q" is a
\* quote character.
RawValues ==
  {<<>>, <<"q", "q">>, <<"<FILL_IN_VALUE>">>, <<"q", "<FILL_IN_VALUE>", "q">>,
   <<"abc">>, <<"q", "abc", "q">>, <<"xyz">>}
\* The values of the vault's secrets with the variable's name and file.
RemoteValues == {<<"abc">>, <<"xyz">>}
\* How getSecretValue settles: with the value, with null, with a rejection.
ValueOutcomes == {"value", "null", "throw"}

\* Line 1488: value.replace(/^["']|["']$/g, '')
CleanValue(raw) ==
  LET a == IF raw # <<>> /\ Head(raw) = "q" THEN Tail(raw) ELSE raw
  IN IF a # <<>> /\ a[Len(a)] = "q" THEN SubSeq(a, 1, Len(a) - 1) ELSE a

\* Line 1199: the values that are no conflict whatever the secret holds.
IsPlaceholder(v) == v = <<"<FILL_IN_VALUE>">> \/ v = <<>>

NoValue == <<"null">>

\* cf.raw: the variable's text in the file; cf.remote: the values of the
\* matching secrets, in list order; cf.seen: the value the running call
\* parsed; cf.idx: the secret whose value is being fetched; cf.status: the
\* list getFileSecretStatus put the variable in; cf.conflict:
\* checkForVariableConflicts reported the file.
IdleCf(raw, remote) ==
  [pc |-> "idle", raw |-> raw, remote |-> remote, seen |-> NoValue, idx |-> 0,
   status |-> "none", conflict |-> FALSE]

CfQuiet == cf = IdleCf(<<>>, <<>>)

CfInit ==
  \E raw \in RawValues :
    \E remote \in {<<>>} \cup {<<a>> : a \in RemoteValues}
                         \cup {<<a, b>> : a \in RemoteValues, b \in RemoteValues} :
      cf = IdleCf(raw, remote)

\* getFileSecretStatus, lines 1527-1548: the file is parsed and the
\* matching secrets are selected; without one the variable is local only.
GetFileSecretStatus ==
  /\ cf.pc = "idle"
  /\ cf' = [IdleCf(cf.raw, cf.remote) EXCEPT
              !.seen = CleanValue(cf.raw),
              !.pc = IF cf.remote = <<>> THEN "statusDone" ELSE "statusGet",
              !.idx = IF cf.remote = <<>> THEN 0 ELSE 1,
              !.status = IF cf.remote = <<>> THEN "localOnly" ELSE "none"]

\* Lines 1549-1577: getSecretValue of the next matching secret settles.
StatusValueSettles(out) ==
  /\ cf.pc = "statusGet"
  /\ LET remoteValue == cf.remote[cf.idx]
     IN cf' = IF out = "value" /\ remoteValue = cf.seen
              THEN [cf EXCEPT !.pc = "statusDone", !.status = "synced"]
              ELSE IF out = "value"
              THEN [cf EXCEPT !.pc = "statusDone", !.status = "conflicted"]
              ELSE IF cf.idx < Len(cf.remote)
              THEN [cf EXCEPT !.idx = @ + 1]
              ELSE [cf EXCEPT !.pc = "statusDone", !.status = "localOnly"]

\* checkForVariableConflicts, lines 1184-1188: the value of the secret to
\* add is requested.
CheckForVariableConflicts(k) ==
  /\ cf.pc = "idle"
  /\ k \in 1..Len(cf.remote)
  /\ cf' = [IdleCf(cf.raw, cf.remote) EXCEPT !.pc = "conflictGet", !.idx = k]

\* Lines 1188-1210: getSecretValue settles; with a value the file is parsed
\* and compared.  null returns no conflict, a rejection leaves the call.
ConflictValueSettles(out) ==
  /\ cf.pc = "conflictGet"
  /\ LET newSecretValue == cf.remote[cf.idx]
         existing == CleanValue(cf.raw)
     IN cf' = IF out = "value"
              THEN [cf EXCEPT
                      !.pc = "conflictDone", !.seen = existing,
                      !.conflict = /\ existing # newSecretValue
                                   /\ existing # <<"<FILL_IN_VALUE>">>
                                   /\ existing # <<>>]
              ELSE [cf EXCEPT !.pc = "conflictDone"]

\* The caller has its answer.
CfReturned ==
  /\ cf.pc \in {"statusDone", "conflictDone"}
  /\ cf' = [cf EXCEPT !.pc = "idle"]

\* The user edits the variable's line.
EditLocalValue(raw) ==
  /\ raw # cf.raw
  /\ cf' = [cf EXCEPT !.raw = raw]

\* =====================================================================
\* Gist synchronisation: ClaudeSyncService (src/src/syncService.ts):
\* initialize (lines 107-127), setupPeriodicSync (203-207), ensureAuthenticated
\* (242-247), onFileChange (337-352), performSync (354-414),
\* performPartialSync (416-447), fetchGist (796-815), uploadToGist
\* (826-979), downloadFromGist (981-1005), dispose (1048-1057)
\* =====================================================================
\* Invocations of performSync / performPartialSync that can be under way.
SyncSlots == {"s1", "s2"}
\* The content of settings.json in the .claude directory and in the
\* settings gist; Absent: there is no such file.
Absent == "absent"
LocalTexts == {Absent, "", "a", "b"}
GistTexts == {Absent, "a", "b"}

\* crypto.createHash('sha256').update(content).digest('hex') (line 1003).
Sha256(c) == <<"sha256", c>>

IdleRun == [pc |-> "idle", kind |-> "none", localSeen |-> Absent, gistSeen |-> Absent]

\* claude.timer: the pending timer ("none", "interval", "timeout");
\* claude.syncTimer: the handle this.syncTimer holds; claude.periodic:
\* setupPeriodicSync has run.
ClaudeQuiet ==
  /\ claude = [issyncing |-> FALSE, githubSession |-> FALSE, timer |-> "none",
               syncTimer |-> "none", periodic |-> FALSE, disposed |-> FALSE]
  /\ claudeFiles = [local |-> Absent, gist |-> Absent]
  /\ syncRun = [s \in SyncSlots |-> IdleRun]

\* After the constructor and initialize(): with or without a GitHub
\* session, the periodic sync set up when the autoSync setting is on.
ClaudeInit ==
  /\ \E session \in BOOLEAN, autoSync \in BOOLEAN :
       claude = [issyncing |-> FALSE, githubSession |-> session,
                 timer |-> IF autoSync THEN "interval" ELSE "none",
                 syncTimer |-> IF autoSync THEN "interval" ELSE "none",
                 periodic |-> autoSync, disposed |-> FALSE]
  /\ \E l \in LocalTexts, g \in GistTexts : claudeFiles = [local |-> l, gist |-> g]
  /\ syncRun = [s \in SyncSlots |-> IdleRun]

\* What uploadToGist sends for the file (lines 851-860): nothing when the
\* file is missing or its content trims to nothing.
Uploads(c) == c \notin {Absent, ""}

\* performSync (lines 354-380) and performPartialSync (lines 416-430) up
\* to their first await that leaves the turn: with issyncing set the call
\* returns; without a session it awaits authenticateGitHub; with one it
\* sets issyncing, scans the files and awaits the first request (a partial
\* sync without a file to upload ends at once).
\* The result is the run's record and the flag.
Begun(kind) ==
  IF claude.issyncing
  THEN [run |-> IdleRun, issyncing |-> TRUE]
  ELSE IF ~claude.githubSession
  THEN [run |-> [IdleRun EXCEPT !.pc = "auth", !.kind = kind], issyncing |-> FALSE]
  ELSE IF kind = "partial" /\ claudeFiles.local = Absent
  THEN [run |-> IdleRun, issyncing |-> FALSE]
  ELSE [run |-> [pc |-> IF kind = "full" THEN "fetch" ELSE "upload",
                 kind |-> kind, localSeen |-> claudeFiles.local, gistSeen |-> Absent],
        issyncing |-> TRUE]

\* The sync command calls performSync.
ManualSync(s) ==
  /\ syncRun[s].pc = "idle"
  /\ Begun("full").run # IdleRun
  /\ syncRun' = [syncRun EXCEPT ![s] = Begun("full").run]
  /\ claude' = [claude EXCEPT !.issyncing = Begun("full").issyncing]
  /\ UNCHANGED claudeFiles

\* The interval of setupPeriodicSync comes round (lines 204-206).
IntervalFires(s) ==
  /\ claude.timer = "interval"
  /\ syncRun[s].pc = "idle"
  /\ Begun("full").run # IdleRun
  /\ syncRun' = [syncRun EXCEPT ![s] = Begun("full").run]
  /\ claude' = [claude EXCEPT !.issyncing = Begun("full").issyncing]
  /\ UNCHANGED claudeFiles

\* The timeout of onFileChange fires (lines 343-351): the watchers pass
\* their file type, so performPartialSync is called.
TimeoutFires(s) ==
  /\ claude.timer = "timeout"
  /\ syncRun[s].pc = "idle"
  /\ syncRun' = [syncRun EXCEPT ![s] = Begun("partial").run]
  /\ claude' = [claude EXCEPT !.timer = "none",
                              !.issyncing = Begun("partial").issyncing]
  /\ UNCHANGED claudeFiles

\* authenticateGitHub settles (lines 208-247).  Without a session the call
\* returns; with one it sets issyncing, scans and sends its first request.
ClaudeAuthSettles(s, ok) ==
  /\ syncRun[s].pc = "auth"
  /\ LET r == syncRun[s]
         session == claude.githubSession \/ ok
         goes == session /\ ~(r.kind = "partial" /\ claudeFiles.local = Absent)
     IN /\ syncRun' = [syncRun EXCEPT ![s] =
                         IF goes
                         THEN [r EXCEPT !.pc = IF r.kind = "full" THEN "fetch" ELSE "upload",
                                        !.localSeen = claudeFiles.local]
                         ELSE IdleRun]
        /\ claude' = [claude EXCEPT !.githubSession = session,
                                    !.issyncing = IF goes THEN TRUE
                                                  ELSE IF session THEN FALSE ELSE @]
  /\ UNCHANGED claudeFiles

\* fetchGist settles (lines 384, 796-815); detectConflicts finds nothing
\* (lines 817-820) and uploadToGist sends its request.  A failed fetch is
\* caught and the finally block clears the flag (lines 405-413).
FetchGistSettles(s, ok) ==
  /\ syncRun[s].pc = "fetch"
  /\ IF ok
     THEN /\ syncRun' = [syncRun EXCEPT ![s] =
                           [@ EXCEPT !.pc = "upload", !.gistSeen = claudeFiles.gist]]
          /\ UNCHANGED claude
     ELSE /\ syncRun' = [syncRun EXCEPT ![s] = IdleRun]
          /\ claude' = [claude EXCEPT !.issyncing = FALSE]
  /\ UNCHANGED claudeFiles

\* downloadFromGist (lines 981-1005) with the gist data fetched earlier and
\* the files scanned earlier: the gist's file is written when the file was
\* not scanned or its hash differs from the scanned one.
Downloaded(r) ==
  IF r.gistSeen # Absent
     /\ (r.localSeen = Absent \/ Sha256(r.localSeen) # Sha256(r.gistSeen))
  THEN r.gistSeen
  ELSE claudeFiles.local

\* The upload settles (lines 395-403, 432-441): the gist holds what was
\* sent; a full sync then downloads; the finally block clears the flag.
UploadSettles(s, ok) ==
  /\ syncRun[s].pc = "upload"
  /\ LET r == syncRun[s]
     IN claudeFiles' =
          IF ~ok THEN claudeFiles
          ELSE [local |-> IF r.kind = "full" THEN Downloaded(r) ELSE claudeFiles.local,
                gist |-> IF Uploads(r.localSeen) THEN r.localSeen ELSE claudeFiles.gist]
  /\ syncRun' = [syncRun EXCEPT ![s] = IdleRun]
  /\ claude' = [claude EXCEPT !.issyncing = FALSE]

\* settings.json is saved; its watcher calls onFileChange (lines 337-352):
\* the timer in this.syncTimer is cleared and a timeout takes its place.
ClaudeFileChange(c) ==
  /\ c # claudeFiles.local
  /\ claudeFiles' = [claudeFiles EXCEPT !.local = c]
  /\ claude' = IF claude.disposed THEN claude
               ELSE [claude EXCEPT !.timer = "timeout", !.syncTimer = "timeout"]
  /\ UNCHANGED syncRun

\* Another machine updates the gist.
GistChange(c) ==
  /\ c # claudeFiles.gist
  /\ claudeFiles' = [claudeFiles EXCEPT !.gist = c]
  /\ UNCHANGED <<claude, syncRun>>

\* dispose (lines 1048-1057): clearTimeout(this.syncTimer), the watchers
\* are disposed.
ClaudeDispose ==
  /\ ~claude.disposed
  /\ claude' = [claude EXCEPT !.disposed = TRUE,
                              !.timer = IF claude.syncTimer = @ THEN "none" ELSE @]
  /\ UNCHANGED <<claudeFiles, syncRun>>

\* The other newer components quiet.
RestJoinQuiet == ScopeQuiet /\ CfQuiet /\ ClaudeQuiet
RestScopeQuiet == JoinQuiet /\ CfQuiet /\ ClaudeQuiet
RestCfQuiet == JoinQuiet /\ ScopeQuiet /\ ClaudeQuiet
RestClaudeQuiet == JoinQuiet /\ ScopeQuiet /\ CfQuiet
NewQuiet == JoinQuiet /\ ScopeQuiet /\ CfQuiet /\ ClaudeQuiet

LateQuiet == SecQuiet /\ CfgQuiet /\ TokQuiet /\ OwnQuiet /\ NewQuiet

InitRL ==
  /\ now = Epoch
  /\ RLInit
  /\ CacheQuiet
  /\ SyncQuiet
  /\ DelQuiet
  /\ DecoQuiet
  /\ AutoQuiet
  /\ VaultQuiet
  /\ LateQuiet

ClockTick == Tick /\ UNCHANGED <<rlVars, cacheVars, syncVars, delVars, extVars>>

NextRL ==
  \/ ClockTick
  \/ \E c \in Callers : RL_Enter(c) /\ UNCHANGED <<cacheVars, syncVars, delVars, extVars>>
  \/ \E c \in Callers : RL_PacingElapsed(c) /\ UNCHANGED <<cacheVars, syncVars, delVars, extVars>>
  \/ \E c \in Callers, o \in Outcomes : RL_ApiCallSettles(c, o) /\ UNCHANGED <<cacheVars, syncVars, delVars, extVars>>
  \/ \E c \in Callers : RL_RetryElapsed(c) /\ UNCHANGED <<cacheVars, syncVars, delVars, extVars>>
  \/ \E c \in Callers, o \in Outcomes : RL_RetrySettles(c, o) /\ UNCHANGED <<cacheVars, syncVars, delVars, extVars>>

SpecRL == InitRL /\ [][NextRL]_vars

NextCB ==
  \/ ClockTick
  \/ \E c \in Callers : CB_Enter(c) /\ UNCHANGED <<cacheVars, syncVars, delVars, extVars>>
  \/ \E c \in Callers : CB_PacingElapsed(c) /\ UNCHANGED <<cacheVars, syncVars, delVars, extVars>>
  \/ \E c \in Callers, o \in Outcomes : CB_ApiCallSettles(c, o) /\ UNCHANGED <<cacheVars, syncVars, delVars, extVars>>

SpecCB == InitRL /\ [][NextCB]_vars

InitCache ==
  /\ now = Epoch
  /\ RLInit
  /\ CacheInit
  /\ SyncQuiet
  /\ DelQuiet
  /\ DecoQuiet
  /\ AutoQuiet
  /\ VaultQuiet
  /\ LateQuiet

NextCache ==
  \/ ClockTick
  \/ \E r \in Readers : GetEnvironmentSecrets(r) /\ UNCHANGED <<rlVars, syncVars, delVars, extVars>>
  \/ \E l \in LoadIds, o \in VaultOutcomes : VaultListSettles(l, o) /\ UNCHANGED <<rlVars, syncVars, delVars, extVars>>
  \/ \E l \in LoadIds, o \in ListOutcomes : ItemsListSettles(l, o) /\ UNCHANGED <<rlVars, syncVars, delVars, extVars>>
  \/ \E l \in LoadIds : ListRetryElapsed(l) /\ UNCHANGED <<rlVars, syncVars, delVars, extVars>>
  \/ \E l \in LoadIds, ok \in BOOLEAN : ResolveAllSettles(l, ok) /\ UNCHANGED <<rlVars, syncVars, delVars, extVars>>
  \/ InvalidateSecretsCache /\ UNCHANGED <<rlVars, syncVars, delVars, extVars>>
  \/ RemoteChange /\ UNCHANGED <<rlVars, syncVars, delVars, extVars>>

SpecCache == InitCache /\ [][NextCache]_vars

InitSync ==
  /\ now = Epoch
  /\ RLInit
  /\ CacheQuiet
  /\ SyncInit
  /\ DelQuiet
  /\ DecoQuiet
  /\ AutoQuiet
  /\ VaultQuiet
  /\ LateQuiet

NextSync ==
  \/ PassScanLocal /\ UNCHANGED <<rlVars, cacheVars, delVars, extVars>>
  \/ \E ok \in BOOLEAN : PassRemoteLoaded(ok) /\ UNCHANGED <<rlVars, cacheVars, delVars, extVars>>
  \/ \E p \in Paths : PassUploadMissing(p) /\ UNCHANGED <<rlVars, cacheVars, delVars, extVars>>
  \/ PassUploadsDone /\ UNCHANGED <<rlVars, cacheVars, delVars, extVars>>
  \/ \E p \in Paths : PassSyncModified(p) /\ UNCHANGED <<rlVars, cacheVars, delVars, extVars>>
  \/ \E ch \in Choices : PassConflictAnswered(ch) /\ UNCHANGED <<rlVars, cacheVars, delVars, extVars>>
  \/ PassDone /\ UNCHANGED <<rlVars, cacheVars, delVars, extVars>>
  \/ \E p \in Paths : SingleSync(p) /\ UNCHANGED <<rlVars, cacheVars, delVars, extVars>>
  \/ \E u \in Uploaders, ok \in BOOLEAN : FindSettles(u, ok) /\ UNCHANGED <<rlVars, cacheVars, delVars, extVars>>
  \/ \E u \in Uploaders, ok \in BOOLEAN : WriteSettles(u, ok) /\ UNCHANGED <<rlVars, cacheVars, delVars, extVars>>
  \/ \E p \in Paths : LocalDelete(p) /\ UNCHANGED <<rlVars, cacheVars, delVars, extVars>>

SpecSync == InitSync /\ [][NextSync]_vars

InitDel ==
  /\ now = Epoch
  /\ RLInit
  /\ CacheQuiet
  /\ SyncInit
  /\ DelInit
  /\ DecoQuiet
  /\ AutoQuiet
  /\ VaultQuiet
  /\ LateQuiet

NextDel ==
  \/ \E k \in GitKinds : GitActivity(k) /\ UNCHANGED <<rlVars, cacheVars, extVars>>
  \/ CheckForGitChanges /\ UNCHANGED <<rlVars, cacheVars, extVars>>
  \/ GitOperationTimeout /\ UNCHANGED <<rlVars, cacheVars, extVars>>
  \/ \E p \in Paths : FileDeleted(p) /\ UNCHANGED <<rlVars, cacheVars, extVars>>
  \/ OnDidDelete /\ UNCHANGED <<rlVars, cacheVars, extVars>>
  \/ HandleFileDeletion /\ UNCHANGED <<rlVars, cacheVars, extVars>>
  \/ \E ok \in BOOLEAN : LookupSettles(ok) /\ UNCHANGED <<rlVars, cacheVars, extVars>>
  \/ \E a \in Answers : PromptAnswered(a) /\ UNCHANGED <<rlVars, cacheVars, extVars>>
  \/ \E ok \in BOOLEAN : DeleteSettles(ok) /\ UNCHANGED <<rlVars, cacheVars, extVars>>

SpecDel == InitDel /\ [][NextDel]_vars

InitDeco ==
  /\ now = Epoch
  /\ RLInit
  /\ CacheQuiet
  /\ SyncInit
  /\ DelQuiet
  /\ DecoQuiet
  /\ AutoQuiet
  /\ VaultQuiet
  /\ LateQuiet

NextDeco ==
  \/ ClockTick
  \/ \E p \in Paths : GetFileSyncStatus(p) /\ UNCHANGED <<rlVars, cacheVars, pass, up, hist, verdict, delVars, autoVars, vaultVars, lateVars>>
  \/ \E b \in BOOLEAN : DecoConfiguredSettles(b) /\ UNCHANGED <<rlVars, cacheVars, pass, up, hist, verdict, delVars, autoVars, vaultVars, lateVars>>
  \/ \E ok \in BOOLEAN : DecoRemoteSettles(ok) /\ UNCHANGED <<rlVars, cacheVars, pass, up, hist, verdict, delVars, autoVars, vaultVars, lateVars>>
  \/ DecoStatSettles /\ UNCHANGED <<rlVars, cacheVars, pass, up, hist, verdict, delVars, autoVars, vaultVars, lateVars>>
  \/ \E p \in Paths : RefreshFile(p) /\ UNCHANGED <<rlVars, cacheVars, pass, up, hist, verdict, delVars, autoVars, vaultVars, lateVars>>
  \/ \E p \in Paths, c \in Contents : LocalSave(p, c) /\ UNCHANGED <<rlVars, cacheVars, pass, up, hist, verdict, delVars, autoVars, vaultVars, lateVars>>
  \/ \E c \in Contents : RemoteSave(c) /\ UNCHANGED <<rlVars, cacheVars, pass, up, hist, verdict, delVars, autoVars, vaultVars, lateVars>>

SpecDeco == InitDeco /\ [][NextDeco]_vars

InitAuto ==
  /\ now = Epoch
  /\ RLInit
  /\ CacheQuiet
  /\ SyncQuiet
  /\ DelQuiet
  /\ DecoQuiet
  /\ AutoQuiet
  /\ VaultQuiet
  /\ LateQuiet

NextAuto ==
  \/ AutoTick /\ UNCHANGED <<rlVars, cacheVars, syncVars, delVars, decoVars, vaultVars, lateVars>>
  \/ \E q \in Requesters : AutoCreateMissingEnvFiles(q) /\ UNCHANGED <<rlVars, cacheVars, syncVars, delVars, decoVars, vaultVars, lateVars>>
  \/ \E q \in Requesters, b \in BOOLEAN : AutoConfiguredSettles(q, b) /\ UNCHANGED <<rlVars, cacheVars, syncVars, delVars, decoVars, vaultVars, lateVars>>
  \/ \E q \in Requesters, r \in SUBSET Paths : AutoRemoteListed(q, r) /\ UNCHANGED <<rlVars, cacheVars, syncVars, delVars, decoVars, vaultVars, lateVars>>
  \/ \E q \in Requesters, p \in Paths, f \in {"exists", "missing", "failed"} : AutoStatSettles(q, p, f) /\ UNCHANGED <<rlVars, cacheVars, syncVars, delVars, decoVars, vaultVars, lateVars>>
  \/ \E q \in Requesters, l \in SUBSET Paths : AutoLocalScanned(q, l) /\ UNCHANGED <<rlVars, cacheVars, syncVars, delVars, decoVars, vaultVars, lateVars>>
  \/ \E q \in Requesters : AutoUploadSettles(q) /\ UNCHANGED <<rlVars, cacheVars, syncVars, delVars, decoVars, vaultVars, lateVars>>
  \/ SyncAllFiles /\ UNCHANGED <<rlVars, cacheVars, syncVars, delVars, decoVars, vaultVars, lateVars>>
  \/ SyncAllFilesSettles /\ UNCHANGED <<rlVars, cacheVars, syncVars, delVars, decoVars, vaultVars, lateVars>>
  \/ \E p \in Paths : UserEvent("create", p) /\ UNCHANGED <<rlVars, cacheVars, syncVars, delVars, decoVars, vaultVars, lateVars>>
  \/ \E h \in handlers, b \in BOOLEAN : CreateHandlerResumes(h, b) /\ UNCHANGED <<rlVars, cacheVars, syncVars, delVars, decoVars, vaultVars, lateVars>>
  \/ \E t \in createTimers : CreateTimerFires(t) /\ UNCHANGED <<rlVars, cacheVars, syncVars, delVars, decoVars, vaultVars, lateVars>>
  \/ \E m \in markTimers : MarkExpires(m) /\ UNCHANGED <<rlVars, cacheVars, syncVars, delVars, decoVars, vaultVars, lateVars>>

SpecAuto == InitAuto /\ [][NextAuto]_vars

NextDebounce ==
  \/ AutoTick /\ UNCHANGED <<rlVars, cacheVars, syncVars, delVars, decoVars, vaultVars, lateVars>>
  \/ \E p \in WatchedPaths : UserEvent("change", p) /\ UNCHANGED <<rlVars, cacheVars, syncVars, delVars, decoVars, vaultVars, lateVars>>
  \/ \E h \in handlers, b \in BOOLEAN : ChangeHandlerResumes(h, b) /\ UNCHANGED <<rlVars, cacheVars, syncVars, delVars, decoVars, vaultVars, lateVars>>
  \/ \E t \in timers : TimerFires(t) /\ UNCHANGED <<rlVars, cacheVars, syncVars, delVars, decoVars, vaultVars, lateVars>>
  \/ \E x \in perform, b \in BOOLEAN : PerformLocalSettles(x, b) /\ UNCHANGED <<rlVars, cacheVars, syncVars, delVars, decoVars, vaultVars, lateVars>>
  \/ \E x \in perform : PerformSyncSettles(x) /\ UNCHANGED <<rlVars, cacheVars, syncVars, delVars, decoVars, vaultVars, lateVars>>

SpecDebounce == InitAuto /\ [][NextDebounce]_vars

InitVault ==
  /\ now = Epoch
  /\ RLInit
  /\ client \in BOOLEAN
  /\ configVaultId \in ConfigValues
  /\ vaultCache = NoEntry
  /\ secretsCache = NoEntry
  /\ isLoadingSecrets = FALSE
  /\ pendingSecretsPromise = None
  /\ load = [l \in LoadIds |-> NoLoad]
  /\ reader = [r \in Readers |-> IdleReader]
  /\ remoteVer = 0
  /\ SyncQuiet
  /\ DelQuiet
  /\ DecoQuiet
  /\ AutoQuiet
  /\ VaultQuiet
  /\ LateQuiet

NextVault ==
  \/ ClockTick
  \/ EnsureDevOrbVault /\ UNCHANGED <<rlVars, secretsCache, isLoadingSecrets, pendingSecretsPromise, load, reader, remoteVer, syncVars, delVars, decoVars, autoVars, lateVars>>
  \/ \E o \in VaultOutcomes : EnsureListSettles(o) /\ UNCHANGED <<rlVars, secretsCache, isLoadingSecrets, pendingSecretsPromise, load, reader, remoteVer, syncVars, delVars, decoVars, autoVars, lateVars>>
  \/ \E ok \in BOOLEAN : EnsureConfigUpdated(ok) /\ UNCHANGED <<rlVars, secretsCache, isLoadingSecrets, pendingSecretsPromise, load, reader, remoteVer, syncVars, delVars, decoVars, autoVars, lateVars>>
  \/ \E v \in ConfigValues : Initialize(v) /\ UNCHANGED <<rlVars, secretsCache, isLoadingSecrets, pendingSecretsPromise, load, reader, remoteVer, syncVars, delVars, decoVars, autoVars, lateVars>>

SpecVault == InitVault /\ [][NextVault]_vars

InitSecrets ==
  /\ now = Epoch
  /\ RLInit
  /\ CacheQuiet
  /\ SyncQuiet
  /\ DelQuiet
  /\ DecoQuiet
  /\ AutoQuiet
  /\ VaultQuiet
  /\ SecInit
  /\ CfgQuiet
  /\ TokQuiet
  /\ OwnQuiet
  /\ NewQuiet

NextSecrets ==
  \/ SyncEnvFile /\ UNCHANGED <<now, rlVars, cacheVars, syncVars, delVars, decoVars, autoVars, vaultVars, cfgVars, tokVars, ownVars, newVars>>
  \/ \E ok \in BOOLEAN : SecListSettles(ok) /\ UNCHANGED <<now, rlVars, cacheVars, syncVars, delVars, decoVars, autoVars, vaultVars, cfgVars, tokVars, ownVars, newVars>>
  \/ \E ok \in BOOLEAN : SecGetSettles(ok) /\ UNCHANGED <<now, rlVars, cacheVars, syncVars, delVars, decoVars, autoVars, vaultVars, cfgVars, tokVars, ownVars, newVars>>
  \/ \E ok \in BOOLEAN : SecCreateSettles(ok) /\ UNCHANGED <<now, rlVars, cacheVars, syncVars, delVars, decoVars, autoVars, vaultVars, cfgVars, tokVars, ownVars, newVars>>
  \/ \E t \in EnvTexts : EditEnvFile(t) /\ UNCHANGED <<now, rlVars, cacheVars, syncVars, delVars, decoVars, autoVars, vaultVars, cfgVars, tokVars, ownVars, newVars>>

SpecSecrets == InitSecrets /\ [][NextSecrets]_vars

\* The full pass under either value of the autoCreateFiles setting.
InitPolicy ==
  /\ now = Epoch
  /\ RLInit
  /\ CacheQuiet
  /\ SyncInit
  /\ DelQuiet
  /\ DecoQuiet
  /\ AutoQuiet
  /\ VaultQuiet
  /\ SecQuiet
  /\ autoCreateFiles \in BOOLEAN
  /\ TokQuiet
  /\ OwnQuiet
  /\ NewQuiet

\* The token handler; a token stored by an earlier session may be there.
InitToken ==
  /\ now = Epoch
  /\ RLInit
  /\ CacheQuiet
  /\ SyncQuiet
  /\ DelQuiet
  /\ DecoQuiet
  /\ AutoQuiet
  /\ VaultQuiet
  /\ SecQuiet
  /\ CfgQuiet
  /\ tokenSetting = <<>>
  /\ secretToken \in {NoToken, <<"ops_", "x">>}
  /\ tok = IdleTok
  /\ OwnQuiet
  /\ NewQuiet

NextToken ==
  \/ \E t \in Tokens : OnTokenSettingChanged(t) /\ UNCHANGED <<now, rlVars, cacheVars, syncVars, delVars, decoVars, autoVars, vaultVars, secVars, cfgVars, ownVars, newVars>>
  \/ \E ok \in BOOLEAN : HandleServiceAccountTokenChange(ok) /\ UNCHANGED <<now, rlVars, cacheVars, syncVars, delVars, decoVars, autoVars, vaultVars, secVars, cfgVars, ownVars, newVars>>
  \/ \E ok \in BOOLEAN : SetServiceAccountToken(ok) /\ UNCHANGED <<now, rlVars, cacheVars, syncVars, delVars, decoVars, autoVars, vaultVars, secVars, cfgVars, ownVars, newVars>>
  \/ \E ok \in BOOLEAN : TokenConfigUpdated(ok) /\ UNCHANGED <<now, rlVars, cacheVars, syncVars, delVars, decoVars, autoVars, vaultVars, secVars, cfgVars, ownVars, newVars>>
  \/ \E ok \in BOOLEAN : TokenSavedSettles(ok) /\ UNCHANGED <<now, rlVars, cacheVars, syncVars, delVars, decoVars, autoVars, vaultVars, secVars, cfgVars, ownVars, newVars>>

SpecToken == InitToken /\ [][NextToken]_vars

\* The secrets cache with this client's own mutations of the vault.
NextMutate ==
  \/ ClockTick
  \/ \E r \in Readers : GetEnvironmentSecrets(r) /\ UNCHANGED <<rlVars, syncVars, delVars, extVars>>
  \/ \E l \in LoadIds, o \in VaultOutcomes : VaultListSettles(l, o) /\ UNCHANGED <<rlVars, syncVars, delVars, extVars>>
  \/ \E l \in LoadIds, o \in ListOutcomes : ItemsListSettles(l, o) /\ UNCHANGED <<rlVars, syncVars, delVars, extVars>>
  \/ \E l \in LoadIds : ListRetryElapsed(l) /\ UNCHANGED <<rlVars, syncVars, delVars, extVars>>
  \/ \E l \in LoadIds, ok \in BOOLEAN : ResolveAllSettles(l, ok) /\ UNCHANGED <<rlVars, syncVars, delVars, extVars>>
  \/ UpdateSecretValueSettles /\ UNCHANGED <<rlVars, syncVars, delVars, decoVars, autoVars, vaultVars, secVars, cfgVars, tokVars, newVars>>
  \/ DeleteSecretSettles /\ UNCHANGED <<rlVars, syncVars, delVars, decoVars, autoVars, vaultVars, secVars, cfgVars, tokVars, newVars>>

SpecMutate == InitCache /\ [][NextMutate]_vars

\* Every component quiet (the initial state of the specifications below,
\* but for their own component).
OldQuiet ==
  /\ now = Epoch
  /\ RLInit
  /\ CacheQuiet
  /\ SyncQuiet
  /\ DelQuiet
  /\ DecoQuiet
  /\ AutoQuiet
  /\ VaultQuiet
  /\ SecQuiet
  /\ CfgQuiet
  /\ TokQuiet
  /\ OwnQuiet

InitJoin == OldQuiet /\ JoinInit /\ RestJoinQuiet

NextJoin ==
  \/ \E kind \in JoinKinds : JoinScanned(kind) /\ UNCHANGED restJoin
  \/ \E p \in JoinPaths, ok \in BOOLEAN : JoinUploadSettles(p, ok) /\ UNCHANGED restJoin
  \/ JoinReturns /\ UNCHANGED restJoin
  \/ \E p \in JoinPaths : JoinLocalChange(p) /\ UNCHANGED restJoin

SpecJoin == InitJoin /\ [][NextJoin]_vars

NextPolicy ==
  \/ \E b \in BOOLEAN : SetAutoCreateFiles(b) /\ UNCHANGED <<now, rlVars, cacheVars, syncVars, delVars, decoVars, autoVars, vaultVars, secVars, tokVars, ownVars, newVars>>
  \/ PassScanLocal /\ UNCHANGED <<rlVars, cacheVars, delVars, extVars>>
  \/ \E ok \in BOOLEAN : PassRemoteLoaded(ok) /\ UNCHANGED <<rlVars, cacheVars, delVars, extVars>>
  \/ \E p \in Paths : PassUploadMissing(p) /\ UNCHANGED <<rlVars, cacheVars, delVars, extVars>>
  \/ PassUploadsDone /\ UNCHANGED <<rlVars, cacheVars, delVars, extVars>>
  \/ \E p \in Paths : PassSyncModified(p) /\ UNCHANGED <<rlVars, cacheVars, delVars, extVars>>
  \/ \E ch \in Choices : PassConflictAnswered(ch) /\ UNCHANGED <<rlVars, cacheVars, delVars, extVars>>
  \/ PassDone /\ UNCHANGED <<rlVars, cacheVars, delVars, extVars>>
  \/ \E ok \in BOOLEAN : FindSettles("pass", ok) /\ UNCHANGED <<rlVars, cacheVars, delVars, extVars>>
  \/ \E ok \in BOOLEAN : WriteSettles("pass", ok) /\ UNCHANGED <<rlVars, cacheVars, delVars, extVars>>
  \/ \E p \in Paths : LocalDelete(p) /\ UNCHANGED <<rlVars, cacheVars, delVars, extVars>>

SpecPolicy == InitPolicy /\ [][NextPolicy]_vars

\* =====================================================================
\* Claims
\* =====================================================================

\* C2 (part_003): a call that ended with a rate-limit error leaves the
\* breaker open until failAt + RateLimitRetryAfter, the error is the call's
\* result, and a call that starts while the breaker is open and unexpired
\* ends at once, refused, without invoking its remote operation.
C2_BreakerFailsFast ==
  \A c \in Callers :
    /\ (call[c].res = "ratelimit" /\ now < call[c].failAt + RateLimitRetryAfter)
         => /\ circuitBreakerOpen
            /\ circuitBreakerOpenUntil >= call[c].failAt + RateLimitRetryAfter
    /\ call[c].enteredOpen
         => /\ call[c].pc = "done"
            /\ call[c].res = "refused"
            /\ call[c].invoked = 0

C2_Witness ==
  \E c, d \in Callers :
    /\ call[c].res = "ratelimit"
    /\ call[d].enteredOpen
    /\ call[d].res = "refused"

\* C3: the remote operations of two calls never overlap (at most one
\* apiCall() is in flight at any time).
C3_NeverRace == Cardinality({c \in Callers : InFlight(c)}) <= 1

C1_ExactlyOneList ==
  \A l \in LoadIds :
    LET W == {r \in Readers : reader[r].load = l}
    IN (load[l].pc = "settled" /\ Cardinality(W) >= 2)
         => /\ load[l].listCalls = 1
            /\ \A r \in W : reader[r].pc = "done" /\ reader[r].res = load[l].res

\* C1 as amended: at most one fetch is in flight at any time; every caller
\* that finds no fresh cache entry while it is in flight awaits that fetch
\* and receives its result; the fetch invokes items.list once, a second
\* time only to retry after a rate-limit error, and not at all when the
\* vault id does not resolve.
C1_AtMostOneFetch ==
  /\ Cardinality({l \in LoadIds : LoadInFlight(l)}) <= 1
  /\ \A l \in LoadIds :
       /\ load[l].listCalls <= 2
       /\ load[l].listCalls = 2 => load[l].wake # None
       /\ load[l].pc \in {"itemslist", "listretry", "resolve"} => load[l].listCalls >= 1
       /\ load[l].pc = "settled" =>
            (load[l].listCalls = 0 <=> ~load[l].vaultOk)
       /\ LoadInFlight(l) => isLoadingSecrets /\ pendingSecretsPromise = l
  /\ \A r \in Readers :
       /\ reader[r].pc = "awaiting" =>
            /\ LoadInFlight(reader[r].load)
            /\ reader[r].load = pendingSecretsPromise
       /\ (reader[r].pc = "done" /\ reader[r].load # None) =>
            /\ load[reader[r].load].pc = "settled"
            /\ reader[r].res = load[reader[r].load].res

C1_Witness ==
  \E l \in LoadIds :
    /\ load[l].pc = "settled"
    /\ load[l].listCalls = 1
    /\ load[l].res # EmptyResult
    /\ Cardinality({r \in Readers : reader[r].pc = "done" /\ reader[r].load = l
                                     /\ reader[r].res = load[l].res}) >= 2
\* C5 as claimed: when a reconciliation pass has run to completion and a
\* further pass runs with no change to a local file or a remote record in
\* between (and no error), the further pass performs no remote create,
\* update or delete and no local write on its own.
C5_SecondPassIdle == (hist.quiet /\ hist.clean) => ~hist.mut2

\* C7 as claimed: the vault never holds two env-file items for one path.
C7_NoDuplicateRecords ==
  \A i, j \in 1..Len(vault) : vault[i].path = vault[j].path => i = j
\* C6 as claimed: whenever syncModifiedFiles compares a path whose hashes
\* differ and whose two timestamps are equal or within the tolerance, it
\* prompts, and nothing is written for that path except what the user
\* chose in the prompt.
C6_ConflictWithinTolerance ==
  \A p \in Paths :
    LET v == verdict[p]
        d == IF v.ltime >= v.rtime THEN v.ltime - v.rtime ELSE v.rtime - v.ltime
    IN (v.kind # "none" /\ d < SyncTolerance)
         => /\ v.kind = "conflict"
            /\ v.wrote = "toRemote" => v.choice = "local"
            /\ v.wrote = "toLocal" => v.choice = "remote"

\* C6 as amended: whenever syncModifiedFiles compares a path whose hashes
\* differ and whose two timestamps are exactly equal, it prompts; while the
\* prompt is open nothing has been written for that path, and afterwards
\* only what the user chose.  Any other timestamps make the newer side win
\* without a prompt.
C6_ConflictOnEqualTimes ==
  /\ \A p \in Paths :
       LET v == verdict[p]
       IN v.kind # "none" =>
            /\ v.kind = "conflict" <=> v.ltime = v.rtime
            /\ v.kind = "upload" <=> v.ltime > v.rtime
            /\ v.kind = "conflict" =>
                 /\ v.wrote = "toRemote" => v.choice = "local"
                 /\ v.wrote = "toLocal" => v.choice = "remote"
  /\ pass.pc = "prompt" =>
       /\ verdict[pass.cur].kind = "conflict"
       /\ verdict[pass.cur].choice = "none"
       /\ verdict[pass.cur].wrote = "none"
       /\ hist.quiet =>
            /\ localFiles[pass.cur] = pass.localSnap[pass.cur]
            /\ GetEnvFilesForRepo(TRUE) = pass.remoteSnap

C6_Witness ==
  /\ pass.pc = "prompt"
  /\ verdict[pass.cur].kind = "conflict"
  /\ pass.localSnap[pass.cur].mtime = RemoteFileMapGet(pass.cur).lastModified
  /\ Hash(pass.localSnap[pass.cur].content) # RemoteFileMapGet(pass.cur).hash

\* C10 as claimed: when the pass finds the local file strictly newer and
\* uploads it, the remote record it compared the file with ends up holding
\* the uploaded content; when it finds the remote record strictly newer, the
\* local file ends up with exactly that record's content and time.
C10_NewerWinsWhole ==
  [][\A p \in Paths :
       /\ (verdict[p].kind = "upload" /\ verdict[p].wrote = "none"
           /\ verdict'[p].wrote = "toRemote")
            => \A i \in 1..Len(vault') :
                 vault'[i].id = RemoteFileMapGet(p).id
                   => vault'[i].content = up["pass"].content
       /\ (verdict'[p] # verdict[p] /\ verdict'[p].kind = "download")
            => /\ verdict'[p].rtime > verdict'[p].ltime
               /\ localFiles'[p] = File(RemoteFileMapGet(p).content,
                                        RemoteFileMapGet(p).lastModified)]_vars
\* C8 as claimed: a deletion event the watcher handles while a merge /
\* rebase / cherry-pick marker exists never opens the confirmation dialog;
\* one it handles with no marker and no branch or head change since the
\* detector's stored state always opens it.
C8_MarkerNeverUserAlways ==
  (ev.via = "watcher" /\ ev.pc \in {"prompt", "deleting", "done"})
    => /\ ev.marker => ~ev.prompted
       /\ (~ev.marker /\ ~ev.changed) => ev.prompted

\* C8 as amended: with a marker the dialog is never opened; with no marker
\* and no branch or head change it is opened exactly when getRemoteEnvFiles
\* reports a remote file for the deleted path.
C8_MarkerNeverUserIfRemote ==
  ev.via = "watcher" =>
    /\ ev.marker => (ev.class = "git" /\ ~ev.prompted /\ ev.pc = "done")
    /\ (~ev.marker /\ ~ev.changed) => ev.class = "user"
    /\ (~ev.marker /\ ~ev.changed /\ ev.pc \in {"prompt", "deleting", "done"})
         => (ev.prompted <=> ev.found # None)

C8_Witness ==
  /\ ev.via = "watcher"
  /\ ~ev.marker
  /\ ~ev.changed
  /\ git.dir
  /\ ev.pc = "prompt"
  /\ ev.prompted

\* C9 as claimed: every remote deletion carried out was classified by the
\* git-operation detector and confirmed in the dialog.
C9_DeleteOnlyConfirmed ==
  \A r \in deleteLog : r.routed /\ r.confirmed

\* C11: a path whose local file and remote record hold identical content is
\* classified synced by the decoration status, whatever the two modification
\* times are.  Stated for a status that getFileSyncStatus computed from the
\* file and the record as they are now.
C11_IdenticalContentSynced ==
  \A p \in Paths :
    (/\ deco.pc = "done" /\ deco.path = p
     /\ localFiles[p].exists
     /\ HasPath(GetEnvFilesForRepo(TRUE), p)
     /\ FirstFor(GetEnvFilesForRepo(TRUE), p).content = localFiles[p].content
     /\ deco.ltime = localFiles[p].mtime
     /\ deco.rtime = FirstFor(GetEnvFilesForRepo(TRUE), p).lastModified)
      => deco.res = "synced"

\* C12: at most one full-workspace pass (autoCreateMissingEnvFiles past its
\* guard, or syncAllFiles) is executing at any time.
C12_OneFullPassAtATime ==
  Cardinality({q \in Requesters : autoPass[q].pc \notin {"idle", "isConfigured"}})
    + fullSync <= 1

\* C13: change events of one path that follow each other within the debounce
\* window start one performAutoSync, one window after the last of them: every
\* performAutoSync starts DebounceDelay after the event that armed its timer,
\* and no two of them for one path were armed by events less than a window
\* apart.
C13_OnePerformPerBurst ==
  \A a \in autoHist.performLog, b \in autoHist.performLog :
    /\ a.at = a.ev + DebounceDelay
    /\ (a.path = b.path /\ a.id # b.id) => Abs(a.ev - b.ev) >= DebounceDelay

\* C14: a path whose local file the engine has written from a remote record
\* is marked as recently processed, and no create or change event of the
\* path within RecentTTL of the write leads to an upload.
C14_EngineWriteSuppressesEvents ==
  \A p \in WatchedPaths :
    autoHist.wrote[p] # None =>
      /\ now < autoHist.wrote[p] + RecentTTL => p \in recentlyProcessedFiles
      /\ \A u \in autoHist.uploads :
           u.path = p => ~(autoHist.wrote[p] <= u.ev
                           /\ u.ev < autoHist.wrote[p] + RecentTTL)

C18_ReturnsConfiguredVault ==
  (ens.pc = "done" /\ ens.res # "error" /\ VaultConfigured(ens.cfg))
     => ens.res = ens.cfg

\* C19: one rateLimitedApiCall invokes its operation at most twice; a first
\* failure that is not a rate-limit error ends the call with that error
\* after the one invocation; only a rate-limit error is followed by a second
\* invocation, whose result or error ends the call whatever it is.
C19_AtMostOneRetry ==
  \A c \in Callers :
    LET r == call[c]
    IN /\ r.invoked <= 2
       /\ r.out1 \in {"ok", "error"} =>
            (r.pc = "done" /\ r.res = r.out1 /\ r.invoked = 1)
       /\ r.invoked = 2 => r.out1 = "ratelimit"
       /\ r.pc = "inflight2" => r.invoked = 2
       /\ (r.pc = "done" /\ r.invoked = 2) => r.res \in Outcomes

\* A call whose retry failed with a rate-limit error again, and one that
\* failed otherwise at its only invocation.
C19_Witness ==
  \E c, d \in Callers :
    /\ call[c].pc = "done" /\ call[c].invoked = 2 /\ call[c].res = "ratelimit"
    /\ call[d].pc = "done" /\ call[d].invoked = 1 /\ call[d].res = "error"

\* C20: the breaker recovers by itself.  A call that enters once the clock
\* has reached circuitBreakerOpenUntil is not refused: it closes the
\* breaker and invokes its operation, at once or after a pacing wait of at
\* most the minimum interval, and getRateLimitStatus() no longer reports a
\* rate limit.  The refusal window never reaches further than the
\* retry-after time from now, so it runs out unless a new rate-limit error
\* occurs.
C20_BreakerRecovers ==
  /\ [](/\ circuitBreakerOpenUntil <= now + RateLimitRetryAfter
        /\ now >= circuitBreakerOpenUntil => ~GetRateLimitStatus)
  /\ [][\A c \in Callers :
          /\ (ncalls'[c] = ncalls[c] + 1 /\ now >= circuitBreakerOpenUntil)
               => /\ call'[c].res # "refused"
                  /\ ~circuitBreakerOpen'
                  /\ ~GetRateLimitStatus'
                  /\ \/ call'[c].pc = "inflight" /\ call'[c].invoked = 1
                     \/ /\ call'[c].pc = "pacing"
                        /\ call'[c].wake <= now + AggressiveMinInterval
          /\ (call[c].pc = "pacing" /\ call'[c] # call[c])
               => call'[c].pc = "inflight" /\ call'[c].invoked = 1]_vars

\* The breaker tripped, its window ran out, and a later call closed it and
\* is on its way to the operation.
C20_Witness ==
  \E c \in Callers :
    /\ circuitBreakerOpenUntil > 0
    /\ now >= circuitBreakerOpenUntil
    /\ ~circuitBreakerOpen
    /\ call[c].pc \in {"pacing", "inflight"}
    /\ ~call[c].enteredOpen
    /\ call[c].prevInv # None

\* C15: the getEnvironmentSecrets() call that follows invalidateSecretsCache()
\* performs a fresh fetch: it never awaits a fetch that was already in
\* flight when the cache was invalidated.
C15_FreshFetchAfterInvalidate == \A r \in Readers : ~reader[r].stale

\* C16: a fetch that completes, with records, with none or with a failure,
\* stores a cache entry holding what it returns (the empty list in the latter
\* two cases); a getEnvironmentSecrets() call made while that entry is
\* within its TTL returns the entry's data and starts no fetch.
C16_CompletionIsCached ==
  [][/\ \A l \in LoadIds :
          (load[l].pc # "settled" /\ load'[l].pc = "settled")
            => /\ secretsCache' = [data |-> load'[l].res, timestamp |-> now]
               /\ load'[l].res \in {EmptyResult, Items(load[l].seen)}
     /\ \A r \in Readers :
          (/\ reader[r].pc \in {"idle", "done"} /\ reader'[r] # reader[r]
           /\ client
           /\ secretsCache # NoEntry
           /\ now - secretsCache.timestamp < SecretsCacheTTL)
            => /\ reader'[r].pc = "done"
               /\ reader'[r].load = None
               /\ reader'[r].res = secretsCache.data
               /\ load' = load]_vars

\* A fetch failed or found nothing, and a later call was served the cached
\* empty list.
C16_Witness ==
  \E r \in Readers, l \in LoadIds :
    /\ load[l].pc = "settled" /\ load[l].res = EmptyResult
    /\ secretsCache # NoEntry /\ secretsCache.data = EmptyResult
    /\ now > secretsCache.timestamp
    /\ reader[r].pc = "done" /\ reader[r].load = None
    /\ reader[r].res = EmptyResult
    /\ client

\* C21: when the vault holds a record for a path that has no local file, a
\* full sync whose remote read succeeds creates the file with exactly the
\* content of a record of that path and with that record's Last Modified as
\* its modification time.
C21_MissingFileCreated ==
  [][PassRemoteLoaded(TRUE) =>
       \A p \in Paths :
         (~pass.localSnap[p].exists /\ ~localFiles[p].exists /\ HasPath(vault, p))
           => \E i \in 1..Len(vault) :
                /\ vault[i].path = p
                /\ localFiles'[p] = File(vault[i].content, vault[i].lastModified)]_vars

\* C22: starting from a file that holds only API_KEY=abc and a vault with
\* no matching item, the first syncEnvFile that returns has created exactly
\* one item, and a second one that returns with nothing changed in between
\* has created none.
C22_SecondSyncCreatesNothing ==
  (secHist.fresh /\ secHist.text1 = ApiKeyAbc)
    => /\ Len(secHist.results) >= 1 => secHist.results[1] = 1
       /\ (Len(secHist.results) >= 2 /\ secHist.quiet) => secHist.results[2] = 0

\* C23: while the timeout that markGitOperation set after a detected branch
\* or head change is pending, the workspace's isInGitOperation flag is set,
\* and a file deletion the watcher classifies in that window is classified
\* as a git operation.
C23_WindowClassifiesGit ==
  /\ gitTimer => (gitStates # NoEntry /\ gitStates.isInGitOperation)
  /\ (ev.via = "watcher" /\ ev.window) => ev.class = "git"

\* C24: a deletion the watcher classifies while the workspace has a .git
\* directory but the detector has no previous state for it is treated as a
\* git operation: the remote copy is kept, the delete-from-1Password dialog
\* is not opened and nothing is deleted remotely.
C24_AmbiguousKeepsRemote ==
  (ev.via = "watcher" /\ ev.noPrev)
    => /\ ev.class = "git"
       /\ ~ev.prompted
       /\ ev.pc \notin {"lookup", "prompt", "deleting"}

\* C25: when the remote write of one file fails during a full pass, the
\* pass skips that file and goes on: it stays in its loop with the files it
\* still has to process.
C25_FailingItemSkipped ==
  [][WriteSettles("pass", FALSE)
       => (pass'.pc = pass.after /\ pass'.todo = pass.todo)]_vars

\* C26: while the autoCreateFiles setting is disabled, no step of a full
\* pass creates a local file for a path that had none.
C26_NoCreateWhenDisabled ==
  [][(~autoCreateFiles /\ pass.pc # "idle")
       => \A p \in Paths : localFiles'[p].exists => localFiles[p].exists]_vars

\* C27: when a run of handleServiceAccountTokenChange that processed a
\* non-blank setting has ended, the plaintext setting is empty, and secret
\* storage never holds a token that does not start with 'ops_'.
C27_TokenLeavesSettings ==
  /\ (tok.pc = "idle" /\ tok.processed) => tokenSetting = <<>>
  /\ secretToken # NoToken => StartsWithOps(secretToken)

\* C28: the latest mutation of the vault by this client invalidated the
\* secrets cache before it returned, and the cache holds no item list read
\* before that mutation.
C28_MutationInvalidates ==
  /\ own.ver > 0 => own.invalidated
  /\ (secretsCache # NoEntry /\ secretsCache.data # EmptyResult)
       => secretsCache.data[2] >= own.ver

\* C29: in a full pass whose read of the remote records failed, the step
\* that takes the failure writes no local file, and no createEnvFile or
\* updateEnvFile call of that pass settles: the vault is not changed and
\* the pass is not ended by a throw.
C29_FailedReadReconcilesNothing ==
  [][/\ PassRemoteLoaded(FALSE) => localFiles' = localFiles
     /\ \A ok \in BOOLEAN :
          (pass.readFailed /\ WriteSettles("pass", ok))
            => (vault' = vault /\ pass'.pc # "idle")]_vars

\* What getFileSyncStatus computes (lines 360-400) from the local file and
\* the remote records as they are now.
CurrentStatus(p) ==
  LET remoteFiles == GetEnvFilesForRepo(TRUE)
  IN IF ~HasPath(remoteFiles, p) \/ ~localFiles[p].exists THEN "local_only"
     ELSE StatusFromTimes(localFiles[p].mtime, FirstFor(remoteFiles, p).lastModified)

\* C30: a query that is answered at once is not answered from a stored
\* classification: its answer is the classification of the local file and
\* the remote record as they are at the query.
C30_StatusRecomputed ==
  [][\A p \in Paths :
       (GetFileSyncStatus(p) /\ deco'.pc = "done") => deco'.res = CurrentStatus(p)]_vars

\* C31: the files a pass sets out to upload are exactly the local files
\* for which no listed record has the same relative path, whatever records
\* exist under other paths.
C31_PathIsJoinKey ==
  [][\A kind \in JoinKinds :
       JoinScanned(kind) => jn'.todo = {l \in jn.local : l \notin jn.remote}]_vars

InitScope == OldQuiet /\ ScopeInit /\ RestScopeQuiet

NextScope ==
  \/ LoadSecretsInternal /\ UNCHANGED restScope
  \/ \E ok \in BOOLEAN, res \in [ScopeItems -> Resolutions] : ScopeResolveSettles(ok, res) /\ UNCHANGED restScope
  \/ ScopeReturned /\ UNCHANGED restScope
  \/ \E r \in RepoNames : ScopeRepoChanges(r) /\ UNCHANGED restScope

SpecScope == InitScope /\ [][NextScope]_vars

\* C32: every item a load returns has no recorded repository or the
\* repository the load read as the current one.
C32_ScopeFiltered ==
  sc.pc = "done"
    => \A i \in sc.result : sc.recorded[i] = "" \/ sc.recorded[i] = sc.current

InitCf == OldQuiet /\ CfInit /\ RestCfQuiet

NextCf ==
  \/ GetFileSecretStatus /\ UNCHANGED restCf
  \/ \E out \in ValueOutcomes : StatusValueSettles(out) /\ UNCHANGED restCf
  \/ \E k \in 1..Len(cf.remote) : CheckForVariableConflicts(k) /\ UNCHANGED restCf
  \/ \E out \in ValueOutcomes : ConflictValueSettles(out) /\ UNCHANGED restCf
  \/ CfReturned /\ UNCHANGED restCf
  \/ \E raw \in RawValues : EditLocalValue(raw) /\ UNCHANGED restCf

SpecCf == InitCf /\ [][NextCf]_vars

\* C33: a variable whose parsed local value is '<FILL_IN_VALUE>' or empty
\* is not put in the conflicted list by getFileSecretStatus and not reported
\* by checkForVariableConflicts.
C33_PlaceholderNoConflict ==
  IsPlaceholder(cf.seen)
    => /\ cf.pc = "statusDone" => cf.status # "conflicted"
       /\ cf.pc = "conflictDone" => ~cf.conflict

\* C34: every pending debounce timer is the one autoSyncTimeouts records
\* for its path, so each path has at most one and the next event cancels it.
C34_PendingTimerRecorded ==
  /\ \A t \in timers : autoSyncTimeouts[t.path] = t.id
  /\ \A p \in WatchedPaths : Cardinality({t \in timers : t.path = p}) <= 1

InitClaude == OldQuiet /\ ClaudeInit /\ RestClaudeQuiet

NextClaude ==
  \/ \E s \in SyncSlots : ManualSync(s) /\ UNCHANGED restClaude
  \/ \E s \in SyncSlots : IntervalFires(s) /\ UNCHANGED restClaude
  \/ \E s \in SyncSlots : TimeoutFires(s) /\ UNCHANGED restClaude
  \/ \E s \in SyncSlots, ok \in BOOLEAN : ClaudeAuthSettles(s, ok) /\ UNCHANGED restClaude
  \/ \E s \in SyncSlots, ok \in BOOLEAN : FetchGistSettles(s, ok) /\ UNCHANGED restClaude
  \/ \E s \in SyncSlots, ok \in BOOLEAN : UploadSettles(s, ok) /\ UNCHANGED restClaude
  \/ \E c \in LocalTexts \ {Absent} : ClaudeFileChange(c) /\ UNCHANGED restClaude
  \/ \E c \in GistTexts \ {Absent} : GistChange(c) /\ UNCHANGED restClaude
  \/ ClaudeDispose /\ UNCHANGED restClaude

SpecClaude == InitClaude /\ [][NextClaude]_vars

\* C35: at most one invocation of performSync or performPartialSync is in
\* the part that follows `issyncing = true`.
C35_OneSyncInProgress ==
  Cardinality({s \in SyncSlots : syncRun[s].pc \in {"fetch", "upload"}}) <= 1

\* C36: when a performSync pass completes without error, a file present
\* both locally and in the gist has the same content on both sides (the
\* pass does not write gist content fetched before its upload over the
\* file it uploaded).
C36_PassLeavesSidesEqual ==
  [][\A s \in SyncSlots :
       (UploadSettles(s, TRUE) /\ syncRun[s].kind = "full")
         => (claudeFiles'.local # Absent /\ claudeFiles'.gist # Absent
               => claudeFiles'.local = claudeFiles'.gist)]_vars

\* C37: once the periodic sync is set up, its interval stays pending until
\* dispose.
C37_PeriodicSurvivesFileChange ==
  (claude.periodic /\ ~claude.disposed) => claude.timer = "interval"

\* ---------------------------------------------------------------------
\* The two in-progress flags: the passes of AutoSyncService and of
\* ClaudeSyncService side by side, every awaited call settling in the end.
\* ---------------------------------------------------------------------
restAuto == <<rlVars, cacheVars, syncVars, delVars, decoVars, vaultVars, lateVars>>

\* settings.json edited since the last sync.
InitFlags == InitClaude /\ claudeFiles = [local |-> "a", gist |-> "b"]

AutoPassStep ==
  \/ \E q \in Requesters : AutoCreateMissingEnvFiles(q) /\ UNCHANGED restAuto
  \/ \E q \in Requesters, b \in BOOLEAN : AutoConfiguredSettles(q, b) /\ UNCHANGED restAuto
  \/ \E q \in Requesters, r \in SUBSET Paths : AutoRemoteListed(q, r) /\ UNCHANGED restAuto
  \/ \E q \in Requesters, p \in Paths, f \in {"exists", "missing", "failed"} : AutoStatSettles(q, p, f) /\ UNCHANGED restAuto
  \/ \E q \in Requesters, l \in SUBSET Paths : AutoLocalScanned(q, l) /\ UNCHANGED restAuto
  \/ \E q \in Requesters : AutoUploadSettles(q) /\ UNCHANGED restAuto

ClaudePassStep ==
  \/ \E s \in SyncSlots : ManualSync(s) /\ UNCHANGED restClaude
  \/ \E s \in SyncSlots : IntervalFires(s) /\ UNCHANGED restClaude
  \/ \E s \in SyncSlots, ok \in BOOLEAN : ClaudeAuthSettles(s, ok) /\ UNCHANGED restClaude
  \/ \E s \in SyncSlots, ok \in BOOLEAN : FetchGistSettles(s, ok) /\ UNCHANGED restClaude
  \/ \E s \in SyncSlots, ok \in BOOLEAN : UploadSettles(s, ok) /\ UNCHANGED restClaude

NextFlags == AutoPassStep \/ ClaudePassStep

\* Every awaited call of a pass settles: isConfigured, getRemoteEnvFiles,
\* stat, the file searches, the uploads; getSession and the gist requests.
FairFlags ==
  /\ \A q \in Requesters :
       /\ WF_vars(\E b \in BOOLEAN : AutoConfiguredSettles(q, b) /\ UNCHANGED restAuto)
       /\ WF_vars(\E r \in SUBSET Paths : AutoRemoteListed(q, r) /\ UNCHANGED restAuto)
       /\ WF_vars(\E p \in Paths, f \in {"exists", "missing", "failed"} : AutoStatSettles(q, p, f) /\ UNCHANGED restAuto)
       /\ WF_vars(\E l \in SUBSET Paths : AutoLocalScanned(q, l) /\ UNCHANGED restAuto)
       /\ WF_vars(AutoUploadSettles(q) /\ UNCHANGED restAuto)
  /\ \A s \in SyncSlots :
       /\ WF_vars(\E ok \in BOOLEAN : ClaudeAuthSettles(s, ok) /\ UNCHANGED restClaude)
       /\ WF_vars(\E ok \in BOOLEAN : FetchGistSettles(s, ok) /\ UNCHANGED restClaude)
       /\ WF_vars(\E ok \in BOOLEAN : UploadSettles(s, ok) /\ UNCHANGED restClaude)

SpecFlags == InitFlags /\ [][NextFlags]_vars /\ FairFlags

NextDispose ==
  \/ AutoTick /\ UNCHANGED restAuto
  \/ \E k \in {"change", "create"}, p \in Paths : (~autoHist.disposed /\ UserEvent(k, p)) /\ UNCHANGED restAuto
  \/ \E h \in handlers, b \in BOOLEAN : ChangeHandlerResumes(h, b) /\ UNCHANGED restAuto
  \/ \E h \in handlers, b \in BOOLEAN : CreateHandlerResumes(h, b) /\ UNCHANGED restAuto
  \/ \E t \in timers : TimerFires(t) /\ UNCHANGED restAuto
  \/ \E t \in createTimers : CreateTimerFires(t) /\ UNCHANGED restAuto
  \/ \E x \in perform, b \in BOOLEAN : PerformLocalSettles(x, b) /\ UNCHANGED restAuto
  \/ \E x \in perform : PerformSyncSettles(x) /\ UNCHANGED restAuto
  \/ \E m \in markTimers : MarkExpires(m) /\ UNCHANGED restAuto
  \/ AutoDispose /\ UNCHANGED restAuto

SpecDispose == InitAuto /\ [][NextDispose]_vars

\* C39: once dispose has returned, no timer that was pending when it was
\* called fires: neither a debounce timer starts performAutoSync nor the
\* delayed sync of a created file calls syncSingleEnvFile.
C39_NoTimerAfterDispose ==
  [][autoHist.disposed =>
       /\ \A t \in timers :
            [kind |-> "debounce", path |-> t.path, id |-> t.id] \in autoHist.atDispose
              => ~TimerFires(t)
       /\ \A t \in createTimers :
            [kind |-> "create", path |-> t.path, id |-> t.due] \in autoHist.atDispose
              => ~CreateTimerFires(t)]_vars

\* C40: a path stays in recentlyProcessedFiles until the timer of its most
\* recent mark expires: while a mark's timer is still to come, its path is
\* in the set.
C40_MarkLastsItsTime ==
  \A m \in markTimers : m.due > now => m.path \in recentlyProcessedFiles

====
